---- MODULE Spec2Model ----
(***************************************************************************)
(* A model of game_helper: the per-(port, account, thread) registry of     *)
(* simulator instances (SimulatorManager / SimulatorInstance), the         *)
(* class-level controller caches (ADBController / ImageController) and the *)
(* device-bridge controller's commands (ADBController), the screen locator *)
(* and display check (ImageController), the emulator launcher             *)
(* (MuMuSimulator.run) and the plugin manager (PluginManager, PluginBase). *)
(*                                                                         *)
(* Python strings are modelled as sequences of one-character strings, so   *)
(* that key formatting, lower(), strip() and the `in` test are computed.   *)
(***************************************************************************)
EXTENDS Integers, Sequences, FiniteSets, TLC

VARIABLES
    \* ---- SimulatorManager and the controller caches (registry part)
    pc,            \* pc[t]: where thread t is inside get/release
    arg,           \* arg[t]: the (port, account) of t's current call
    mgrLock,       \* holders of SimulatorManager._lock (empty or one thread)
    instances,     \* SimulatorManager._instances: key string -> instance id
    simObjs,       \* live SimulatorInstance objects: id -> fields
    adbInstances,  \* ADBController._instances: key string -> controller id
    imgInstances,  \* ImageController._instances: key string -> controller id
    adbObjs,       \* ADBController objects: id -> fields
    imgObjs,       \* ImageController objects: id -> fields
    nextId,        \* next fresh object identity
    regCmd,        \* regCmd[t]: the bridge command t has in flight ("none" if none)
    ret,           \* ret[t]: value returned by t's last get_simulator_instance
    \* history of the registry part
    got,           \* results of get calls whose entry was not released since
    ctorCount,     \* <<port, thread, account>> -> constructions since last release
    relInfo,       \* relInfo[t]: what t's release call did, kept until t's next call
                   \* (through a get for the same port and account)
    evicted,       \* identities of the SimulatorInstance objects evicted by release
    \* ---- ADBController operations (bridge part)
    brPc,          \* "idle", "run" (command in flight), "done", "hung" (waits for ever)
    brOp,          \* the operation in progress and its arguments
    brCmd,         \* the adb command in flight
    brRun,         \* what the last command did and what subprocess.run made of it
    brRet,         \* what the operation gave its caller
    brLog,         \* the adb commands the operation issued, in order
    brEnded,       \* how the commands of the operation that have ended behaved, in order
    connected,     \* ports of the emulator instances the adb server is connected to
    \* ---- ImageController.get_simulator_ui_bounds (locator part)
    locPc,         \* "idle", "pulled" (snapshot downloaded), "done", "hung"
    locQuery,      \* the search_value of the call in progress
    locFile,       \* whether a file exists at unique_xml_path
    locSnap,       \* what the pull of this call left at unique_xml_path
    locRet,        \* what the call gave its caller
    \* ---- MuMuSimulator.run (launcher part)
    lnPc,          \* the step run is about to take; "idle", "done", "hung"
    lnTrace,       \* the steps run has attempted, in order, each with its outcome
    lnRes,         \* the resolution the display check read, until the next step
    lnChk,         \* what check_resolution_ratio gave, until the next step
    lnRet,         \* what run gave its caller
    page,          \* self.page
    count,         \* self.count
    lnRange,       \* range(1, self.page + 1) of the for loop, once it is entered
    lnAttempt,     \* the loop variable attempt (0 before the loop)
    lnTries,       \* calls of _try_launch in this launch
    lnSwipes,      \* the swipes of this launch, in order
    lnRead,        \* the total the refresh before the first _try_launch read (-1: none)
    lnCounts,      \* self.count as each pass of the loop found it, in order
    lnClosed,      \* what close_simulator_game gave this launch ("none" before)
    lnReadFrom,    \* the file the last refresh of this launch parsed
    lnPullPaths,   \* the files the session's downloads were told to write
    lnTap,         \* what the click of _try_launch returned in this launch, or "none"
    devPages,      \* the home-screen pages of the device, 0 when no device is described
    devPage,       \* the page the device shows
    devIcon,       \* the page the game icon is on
    \* ---- PluginManager (plugin part)
    pmPc,          \* "idle", "batch" (in the loop of execute_plugins_by_priority),
                   \* "unload_all" (in the loop of unload_all_plugins), "done"
    pmOp,          \* the operation in progress and its argument
    plugins,       \* self._plugins: the instances in insertion order of their names
    pmLock,        \* holders of self._lock (empty or one)
    pmQueue,       \* plugins_to_execute, what is left of it
    pmResults,     \* results of execute_plugins_by_priority: name -> entry
    pmRan,         \* the execute_plugin calls of this operation, in order
    pmRet,         \* what the operation gave its caller
    pmBefore,      \* self._plugins when the operation was called
    pmLeft,        \* the instances this operation took out of self._plugins
    \* ---- PluginBase.execute_with_error_handling (handling part)
    ehPc,          \* "idle", "running" (a frame is entered), "executing" (inside
                   \* execute), "done"
    ehHandler,     \* the answers the error handler will give, the last one for ever
    ehDepth,       \* frames of execute_with_error_handling on the stack
    ehInvocations, \* calls of execute() made for this call
    ehFaults,      \* how many of them faulted
    ehAnswers,     \* the answers handle_error gave, in order
    ehRunning,     \* self._is_running
    ehRet,         \* what the call gave its caller
    ehPaused,      \* self._is_paused
    ehWait,        \* where wait_if_paused is: "none", "test_paused", "test_running",
                   \* "sleeping"
    ehStoppedAt,   \* calls of execute() made when stop() came during this call (after
                   \* its first call of execute()), or -1
    \* ---- one ADBController called by several threads (connection part)
    cnPc,          \* per thread: "idle", "connect_wait", "connect_run", "disconnect_run"
    cnLock,        \* holders of self._connection_lock
    cnCmd,         \* per thread: its adb command in flight
    cnRet,         \* per thread: what its last call returned
    cnConnected,   \* the emulators the adb server is connected to
    wrappers,      \* per LogWrapper: the account it was made for, or NoWrapper
    loggers,       \* LogFactory._loggers: the keys registered
    log_handlers,  \* LogFactory._log_handlers: per key the handlers stored
    handlers       \* logging: per logger name the handlers attached to it

regVars == <<pc, arg, mgrLock, instances, simObjs, adbInstances, imgInstances,
             adbObjs, imgObjs, nextId, regCmd, ret, got, ctorCount, relInfo, evicted>>
brVars == <<brPc, brOp, brCmd, brRun, brRet, brLog, brEnded, connected>>
locVars == <<locPc, locQuery, locFile, locSnap, locRet>>
lnVars == <<lnPc, lnTrace, lnRes, lnChk, lnRet, page, count, lnRange, lnAttempt,
            lnTries, lnSwipes, lnRead, lnCounts, lnClosed, lnReadFrom, lnPullPaths,
            lnTap, devPages, devPage, devIcon>>
pmVars == <<pmPc, pmOp, plugins, pmLock, pmQueue, pmResults, pmRan, pmRet, pmBefore,
            pmLeft>>
ehVars == <<ehPc, ehHandler, ehDepth, ehInvocations, ehFaults, ehAnswers, ehRunning, ehRet,
            ehPaused, ehWait, ehStoppedAt>>
cnVars == <<cnPc, cnLock, cnCmd, cnRet, cnConnected>>
lgVars == <<wrappers, loggers, log_handlers, handlers>>
vars == <<regVars, brVars, locVars, lnVars, pmVars, ehVars, cnVars, lgVars>>

\* what the actions of one part leave alone
notReg == <<brVars, locVars, lnVars, pmVars, ehVars, cnVars, lgVars>>
notBr == <<regVars, locVars, lnVars, pmVars, ehVars, cnVars, lgVars>>
notLoc == <<regVars, brVars, lnVars, pmVars, ehVars, cnVars, lgVars>>
notLn == <<regVars, brVars, locVars, pmVars, ehVars, cnVars, lgVars>>
notPm == <<regVars, brVars, locVars, lnVars, ehVars, cnVars, lgVars>>
notEh == <<regVars, brVars, locVars, lnVars, pmVars, cnVars, lgVars>>
notCn == <<regVars, brVars, locVars, lnVars, pmVars, ehVars, lgVars>>
notLg == <<regVars, brVars, locVars, lnVars, pmVars, ehVars, cnVars>>

-----------------------------------------------------------------------------
\* Bounds of the model

\* identities that may be allocated in one behaviour
MaxObjects == 5
\* largest max_offset argument tried for click and swipe
MaxOffset == 2

\* thread identities (threading.get_ident()), ports and accounts tried
Threads == {1, 2}
Ports == {1, 12}
Accounts == {<<"a">>, <<"2", "_", "a">>}

-----------------------------------------------------------------------------
\* Python string formatting

DigitChar(d) ==
    CASE d = 0 -> "0" [] d = 1 -> "1" [] d = 2 -> "2" [] d = 3 -> "3"
      [] d = 4 -> "4" [] d = 5 -> "5" [] d = 6 -> "6" [] d = 7 -> "7"
      [] d = 8 -> "8" [] d = 9 -> "9"

\* str(n) of a non-negative int, as an f-string formats it
RECURSIVE Str(_)
Str(n) == IF n < 10 THEN <<DigitChar(n)>>
          ELSE Str(n \div 10) \o <<DigitChar(n % 10)>>

\* the default host argument of ADBController
Host == <<"1", "2", "7", ".", "0", ".", "0", ".", "1">>

\* f"{port}_{thread_id}_{account}", without the thread identity
ManagerKeyNoThread(port, thread_id, account) ==
    Str(port) \o <<"_">> \o account

\* f"{port}_{thread_id}_{account}"
ManagerKey(port, thread_id, account) ==
    Str(port) \o <<"_">> \o Str(thread_id) \o <<"_">> \o account

\* f"{host}:{port}"
AdbKey(host, port) == host \o <<":">> \o Str(port)

\* f"{port}:{account}"
ImageKey(port, account) == Str(port) \o <<":">> \o account

-----------------------------------------------------------------------------
\* subprocess.run

\* what the launched adb command does: exits 0, exits non-zero, never exits,
\* cannot be found, may not be executed
CmdBehaviours == {"exit0", "nonzero", "never", "nobinary", "noperm"}

\* a command with no timeout argument: timeout |-> 0 stands for timeout=None
NoCmd == [sub |-> "none", serial |-> <<>>, args |-> <<>>, timeout |-> 0,
          check |-> FALSE, shell |-> FALSE]

\* subprocess.run(cmd, timeout=..., check=..., shell=...) on a command that
\* behaves as b: "completed", the exception raised, or "blocked" when the call
\* waits without limit for a command that never exits.  With shell=True the
\* shell is what is launched: a missing or non-executable adb is the shell's
\* non-zero exit status.
SubprocessRun(cmd, b) ==
    LET eff == IF cmd.shell /\ b \in {"nobinary", "noperm"} THEN "nonzero" ELSE b
    IN CASE eff = "nobinary" -> "FileNotFoundError"
         [] eff = "noperm" -> "PermissionError"
         [] eff = "never" -> IF cmd.timeout > 0 THEN "TimeoutExpired" ELSE "blocked"
         [] eff = "nonzero" -> IF cmd.check THEN "CalledProcessError" ELSE "completed"
         [] eff = "exit0" -> "completed"

\* ["adb", "disconnect", f"{self.host}:{port}"], timeout=10
DisconnectCmd(host, port) ==
    [sub |-> "disconnect", serial |-> AdbKey(host, port), args |-> <<>>,
     timeout |-> 10, check |-> FALSE, shell |-> FALSE]

\* disconnect with an except clause that logs and re-raises
disconnect_reraising(run) ==
    [raised |-> run # "completed", value |-> TRUE]

\* ADBController.disconnect, given what subprocess.run did: every exception is
\* caught and answered with False, a completed command with True
disconnect(run) ==
    [raised |-> FALSE, value |-> run = "completed"]

-----------------------------------------------------------------------------
\* SimulatorManager, SimulatorInstance and the controller caches

NoArg == [port |-> 0, account |-> <<>>]

NoRelease == [phase |-> "none", port |-> 0, account |-> <<>>, found |-> FALSE,
              disc |-> 0, discResult |-> "none", obj |-> 0]

RegInit ==
    /\ pc = [t \in Threads |-> "idle"]
    /\ arg = [t \in Threads |-> NoArg]
    /\ mgrLock = {}
    /\ instances = <<>>
    /\ simObjs = <<>>
    /\ adbInstances = <<>>
    /\ imgInstances = <<>>
    /\ adbObjs = <<>>
    /\ imgObjs = <<>>
    /\ nextId = 1
    /\ regCmd = [t \in Threads |-> NoCmd]
    /\ ret = [t \in Threads |-> 0]
    /\ got = {}
    /\ ctorCount = <<>>
    /\ relInfo = [t \in Threads |-> NoRelease]
    /\ evicted = {}

AdbGetInstanceUncached(cache, objs, port, fresh) ==
    [cache |-> (AdbKey(Host, port) :> fresh) @@ cache,
     objs |-> objs @@ (fresh :> [host |-> Host, port |-> port]),
     obj |-> fresh, used |-> 1]

\* ADBController.get_instance(port, ...) on the cache `cache`, taking the
\* identity `fresh` for a controller it has to construct
AdbGetInstance(cache, objs, port, fresh) ==
    LET key == AdbKey(Host, port)
    IN IF key \notin DOMAIN cache
       THEN [cache |-> cache @@ (key :> fresh),
             objs |-> objs @@ (fresh :> [host |-> Host, port |-> port]),
             obj |-> fresh, used |-> 1]
       ELSE [cache |-> cache, objs |-> objs, obj |-> cache[key], used |-> 0]

\* SimulatorInstance(port, account, simulator_type), constructed as object
\* `self`: self.adb and self.image come from the two class-level caches, and
\* a new ImageController asks the ADBController cache again for its own adb
SimulatorInstanceInit(self, port, account) ==
    LET a == AdbGetInstance(adbInstances, adbObjs, port, self + 1)
        ikey == ImageKey(port, account)
        fresh == self + 1 + a.used
        isNew == ikey \notin DOMAIN imgInstances
        a2 == IF isNew THEN AdbGetInstance(a.cache, a.objs, port, fresh + 1) ELSE a
        image == IF isNew THEN fresh ELSE imgInstances[ikey]
    IN [adbInstances |-> a2.cache,
        adbObjs |-> a2.objs,
        imgInstances |-> IF isNew THEN imgInstances @@ (ikey :> fresh) ELSE imgInstances,
        imgObjs |-> IF isNew
                    THEN imgObjs @@ (fresh :> [port |-> port, account |-> account,
                                                adb |-> a2.obj])
                    ELSE imgObjs,
        fields |-> [port |-> port, account |-> account, adb |-> a.obj, image |-> image],
        nextId |-> self + 1 + a.used + (IF isNew THEN 1 + a2.used ELSE 0)]

\* the caller enters get_simulator_instance: thread_id and key are computed
get_simulator_instance_call(t, port, account) ==
    /\ pc[t] = "idle"
    /\ pc' = [pc EXCEPT ![t] = "get_wait"]
    /\ arg' = [arg EXCEPT ![t] = [port |-> port, account |-> account]]
    /\ relInfo' = [relInfo EXCEPT ![t] =
                      IF @.port = port /\ @.account = account THEN @ ELSE NoRelease]
    /\ UNCHANGED <<mgrLock, instances, simObjs, adbInstances, imgInstances, adbObjs,
                   imgObjs, nextId, regCmd, ret, got, ctorCount, evicted>>
    /\ UNCHANGED notReg

\* with cls._lock: look the key up, construct and insert when it is absent
get_simulator_instance_locked(t) ==
    LET key == ManagerKey(arg[t].port, t, arg[t].account)
        triple == <<arg[t].port, t, arg[t].account>>
        made == SimulatorInstanceInit(nextId, arg[t].port, arg[t].account)
    IN /\ pc[t] = "get_wait"
       /\ mgrLock = {}
       /\ mgrLock' = {t}
       /\ pc' = [pc EXCEPT ![t] = "get_unlock"]
       /\ IF key \notin DOMAIN instances
          THEN /\ made.nextId <= MaxObjects + 1
               /\ instances' = instances @@ (key :> nextId)
               /\ simObjs' = simObjs @@ (nextId :> made.fields)
               /\ adbInstances' = made.adbInstances
               /\ adbObjs' = made.adbObjs
               /\ imgInstances' = made.imgInstances
               /\ imgObjs' = made.imgObjs
               /\ nextId' = made.nextId
               /\ ret' = [ret EXCEPT ![t] = nextId]
               /\ ctorCount' = IF triple \in DOMAIN ctorCount
                               THEN [ctorCount EXCEPT ![triple] = @ + 1]
                               ELSE ctorCount @@ (triple :> 1)
          ELSE /\ ret' = [ret EXCEPT ![t] = instances[key]]
               /\ UNCHANGED <<instances, simObjs, adbInstances, adbObjs, imgInstances,
                              imgObjs, nextId, ctorCount>>
       /\ UNCHANGED <<arg, regCmd, got, relInfo, evicted>>
       /\ UNCHANGED notReg

\* the with block is left and the instance is returned
get_simulator_instance_return(t) ==
    /\ pc[t] = "get_unlock"
    /\ mgrLock' = mgrLock \ {t}
    /\ pc' = [pc EXCEPT ![t] = "idle"]
    /\ got' = got \cup {[port |-> arg[t].port, account |-> arg[t].account,
                         thread |-> t, obj |-> ret[t]]}
    /\ arg' = [arg EXCEPT ![t] = NoArg]
    /\ ret' = [ret EXCEPT ![t] = 0]
    /\ relInfo' = [relInfo EXCEPT ![t] = NoRelease]
    /\ UNCHANGED <<instances, simObjs, adbInstances, imgInstances, adbObjs,
                   imgObjs, nextId, regCmd, ctorCount, evicted>>
    /\ UNCHANGED notReg

\* the caller enters release_simulator_instance
release_simulator_instance_call(t, port, account) ==
    /\ pc[t] = "idle"
    /\ pc' = [pc EXCEPT ![t] = "rel_wait"]
    /\ arg' = [arg EXCEPT ![t] = [port |-> port, account |-> account]]
    /\ relInfo' = [relInfo EXCEPT ![t] = [NoRelease EXCEPT !.phase = "running",
                                            !.port = port, !.account = account]]
    /\ UNCHANGED <<mgrLock, instances, simObjs, adbInstances, imgInstances, adbObjs,
                   imgObjs, nextId, regCmd, ret, got, ctorCount, evicted>>
    /\ UNCHANGED notReg

\* with cls._lock: when the key is present, cleanup() starts: the instance's
\* adb controller issues the disconnect command for the instance's port
release_simulator_instance_locked(t) ==
    LET key == ManagerKey(arg[t].port, t, arg[t].account)
    IN /\ pc[t] = "rel_wait"
       /\ mgrLock = {}
       /\ mgrLock' = {t}
       /\ IF key \in DOMAIN instances
          THEN LET inst == simObjs[instances[key]]
               IN /\ regCmd' = [regCmd EXCEPT ![t] =
                                   DisconnectCmd(adbObjs[inst.adb].host, inst.port)]
                  /\ relInfo' = [relInfo EXCEPT ![t].found = TRUE, ![t].disc = @ + 1,
                                                ![t].obj = instances[key]]
                  /\ pc' = [pc EXCEPT ![t] = "rel_cleanup"]
          ELSE /\ pc' = [pc EXCEPT ![t] = "rel_unlock"]
               /\ UNCHANGED <<regCmd, relInfo>>
       /\ UNCHANGED <<arg, instances, simObjs, adbInstances, imgInstances, adbObjs,
                      imgObjs, nextId, ret, got, ctorCount, evicted>>
       /\ UNCHANGED notReg

\* the disconnect command ends (behaving as b), cleanup() returns and the
\* entry is deleted; an exception out of cleanup() would leave the with block
\* and the call without the deletion
release_simulator_instance_cleanup(t, b) ==
    LET key == ManagerKey(arg[t].port, t, arg[t].account)
        run == SubprocessRun(regCmd[t], b)
        d == disconnect(run)
    IN /\ pc[t] = "rel_cleanup"
       /\ run # "blocked"
       /\ regCmd' = [regCmd EXCEPT ![t] = NoCmd]
       /\ IF d.raised
          THEN /\ relInfo' = [relInfo EXCEPT ![t].discResult = "raised",
                                             ![t].phase = "returned"]
               /\ mgrLock' = mgrLock \ {t}
               /\ pc' = [pc EXCEPT ![t] = "idle"]
               /\ arg' = [arg EXCEPT ![t] = NoArg]
               /\ UNCHANGED <<instances, simObjs, got, ctorCount, evicted>>
          ELSE /\ relInfo' = [relInfo EXCEPT ![t].discResult =
                                                 IF d.value THEN "True" ELSE "False"]
               /\ instances' = [k \in DOMAIN instances \ {key} |-> instances[k]]
               /\ simObjs' = [i \in DOMAIN simObjs \ {instances[key]} |-> simObjs[i]]
               /\ evicted' = evicted \cup {instances[key]}
               /\ got' = {g \in got : g.obj # instances[key]}
               /\ ctorCount' = [k \in DOMAIN ctorCount \ {<<arg[t].port, t, arg[t].account>>}
                                  |-> ctorCount[k]]
               /\ pc' = [pc EXCEPT ![t] = "rel_unlock"]
               /\ UNCHANGED <<mgrLock, arg>>
       /\ UNCHANGED <<adbInstances, imgInstances, adbObjs, imgObjs, nextId, ret>>
       /\ UNCHANGED notReg

\* the with block is left and release returns
release_simulator_instance_return(t) ==
    /\ pc[t] = "rel_unlock"
    /\ mgrLock' = mgrLock \ {t}
    /\ pc' = [pc EXCEPT ![t] = "idle"]
    /\ relInfo' = [relInfo EXCEPT ![t].phase = "returned"]
    /\ arg' = [arg EXCEPT ![t] = NoArg]
    /\ UNCHANGED <<instances, simObjs, adbInstances, imgInstances, adbObjs,
                   imgObjs, nextId, regCmd, ret, got, ctorCount, evicted>>
    /\ UNCHANGED notReg

-----------------------------------------------------------------------------
\* Python string operations used on command output

IsSpace(c) == c \in {" ", "\n", "\t", "\r"}

RECURSIVE LStrip(_)
LStrip(s) == IF s = <<>> THEN s
             ELSE IF IsSpace(Head(s)) THEN LStrip(Tail(s)) ELSE s

RECURSIVE RStrip(_)
RStrip(s) == IF s = <<>> THEN s
             ELSE IF IsSpace(s[Len(s)]) THEN RStrip(SubSeq(s, 1, Len(s) - 1)) ELSE s

\* s.strip()
Strip(s) == RStrip(LStrip(s))

UpperLetters == <<"A", "B", "C", "D", "E", "F", "G", "H", "I", "J", "K", "L", "M",
                  "N", "O", "P", "Q", "R", "S", "T", "U", "V", "W", "X", "Y", "Z">>
LowerLetters == <<"a", "b", "c", "d", "e", "f", "g", "h", "i", "j", "k", "l", "m",
                  "n", "o", "p", "q", "r", "s", "t", "u", "v", "w", "x", "y", "z">>

LowerChar(c) ==
    IF \E i \in DOMAIN UpperLetters : UpperLetters[i] = c
    THEN LowerLetters[CHOOSE i \in DOMAIN UpperLetters : UpperLetters[i] = c]
    ELSE c

\* s.lower()
Lower(s) == [i \in 1..Len(s) |-> LowerChar(s[i])]

\* sub in s
PyIn(sub, s) ==
    \E i \in 1..(Len(s) - Len(sub) + 1) : SubSeq(s, i, i + Len(sub) - 1) = sub

\* the literals "connected" and "already" of connect, and "无输出"
T_connected == <<"c", "o", "n", "n", "e", "c", "t", "e", "d">>
T_already == <<"a", "l", "r", "e", "a", "d", "y">>
NoOutputText == <<"无", "输", "出">>

-----------------------------------------------------------------------------
\* The adb commands ADBController builds

\* ["adb", "connect", f"{self.host}:{port}"], timeout=10
ConnectCmd(host, port) ==
    [sub |-> "connect", serial |-> AdbKey(host, port), args |-> <<>>,
     timeout |-> 10, check |-> FALSE, shell |-> FALSE]

\* ["adb", "shell", "dumpsys", "window", "displays"], check=True, timeout=5
DumpsysCmd ==
    [sub |-> "dumpsys", serial |-> <<>>, args |-> <<>>,
     timeout |-> 5, check |-> TRUE, shell |-> FALSE]

\* the dump command as it would be run without check=True
DumpCmdUnchecked ==
    [sub |-> "dump", serial |-> <<>>, args |-> <<>>,
     timeout |-> 0, check |-> FALSE, shell |-> FALSE]

\* ["adb", "shell", "uiautomator", "dump", "/sdcard/window_dump.xml"], check=True
DumpCmd ==
    [sub |-> "dump", serial |-> <<>>, args |-> <<>>,
     timeout |-> 0, check |-> TRUE, shell |-> FALSE]

\* ["adb", "pull", "/sdcard/window_dump.xml", xml_path], check=True
PullCmd ==
    [sub |-> "pull", serial |-> <<>>, args |-> <<>>,
     timeout |-> 0, check |-> TRUE, shell |-> FALSE]

\* ["adb", "shell", "input", "tap", str(actual_x), str(actual_y)], check=True, timeout=5
TapCmd(actual_x, actual_y) ==
    [sub |-> "tap", serial |-> <<>>, args |-> <<actual_x, actual_y>>,
     timeout |-> 5, check |-> TRUE, shell |-> FALSE]

\* ["adb", "shell", "input", "swipe", x1, y1, x2, y2, duration], check=True, timeout=5
SwipeCmd(x1, y1, x2, y2, duration) ==
    [sub |-> "swipe", serial |-> <<>>, args |-> <<x1, y1, x2, y2, duration>>,
     timeout |-> 5, check |-> TRUE, shell |-> FALSE]

\* f"adb shell am force-stop {package_name}", shell=True, check=True
ForceStopCmd ==
    [sub |-> "force-stop", serial |-> <<>>, args |-> <<>>,
     timeout |-> 0, check |-> TRUE, shell |-> TRUE]

\* random.randint(a, b) with an upper end one too large
RandIntOvershoot(a, b) == a..(b + 1)

\* random.randint(a, b): any integer of a..b, both ends included; the empty
\* range stands for the ValueError of a > b
RandInt(a, b) == a..b

-----------------------------------------------------------------------------
\* What the operations answer, given what subprocess.run did

BoolStr(v) == IF v THEN "True" ELSE "False"

\* connect testing the output as it is, without lower()
connect_case_sensitive(kind, out) ==
    IF kind = "completed"
    THEN LET stdout == IF out # <<>> THEN Strip(out) ELSE NoOutputText
         IN PyIn(T_connected, stdout) \/ PyIn(T_already, stdout)
    ELSE FALSE

\* ADBController.connect: the stripped output (or "无输出") is lower-cased and
\* searched for "connected" and "already"; every except clause returns False
connect(kind, out) ==
    IF kind = "completed"
    THEN LET stdout == IF out # <<>> THEN Strip(out) ELSE NoOutputText
         IN PyIn(T_connected, Lower(stdout)) \/ PyIn(T_already, Lower(stdout))
    ELSE FALSE

\* ADBController.click and ADBController.swipe after their command: True when
\* it completed; TimeoutExpired, CalledProcessError and any other Exception
\* are logged and False is returned
click(kind) == BoolStr(kind = "completed")

\* ADBController.download_window_dump after a command: CalledProcessError,
\* FileNotFoundError and any other Exception give False
download_window_dump(kind) == BoolStr(kind = "completed")

\* ADBController.close_simulator_game: only CalledProcessError is caught
close_simulator_game(kind) ==
    CASE kind = "completed" -> "True"
      [] kind = "CalledProcessError" -> "False"
      [] OTHER -> "raised"

\* the literal "cur=" that the pattern cur=(\d+)x(\d+) starts with
T_cur == <<"c", "u", "r", "=">>

\* ADBController.get_current_display_resolution: the resolution when the
\* command completed and the pattern is found, None otherwise
get_current_display_resolution(kind, out) ==
    IF kind = "completed" /\ PyIn(T_cur, out) THEN "resolution" ELSE "None"

-----------------------------------------------------------------------------
\* The adb server: what a command that runs to its end replies and does

MsgConnected(addr) == T_connected \o <<" ", "t", "o", " ">> \o addr \o <<"\n">>
MsgConnectedCap(addr) == <<"C">> \o Tail(MsgConnected(addr))
MsgAlready(addr) == T_already \o <<" ">> \o MsgConnected(addr)
MsgFailed(addr) ==
    <<"f", "a", "i", "l", "e", "d", " ", "t", "o", " ", "c", "o", "n", "n", "e", "c", "t",
      " ", "t", "o", " ">> \o addr \o <<"\n">>
MsgDisconnected(addr) == <<"d", "i", "s">> \o MsgConnected(addr)
MsgNoSuchDevice(addr) ==
    <<"e", "r", "r", "o", "r", ":", " ", "n", "o", " ", "s", "u", "c", "h", " ",
      "d", "e", "v", "i", "c", "e", " ">> \o addr \o <<"\n">>
MsgDisplays == T_cur \o <<"1", "9", "2", "0", "x", "1", "0", "8", "0", "\n">>

\* the replies [stdout, conn, dev] possible when command cmd of the controller
\* for port p ends with behaviour b while the server is connected to `conn`:
\* the text printed, the connections afterwards and the emulator (port) the
\* command acted on, 0 for none.  A command that names no device goes to the
\* only connected device and is refused when there is none or several.
Replies(cmd, p, b, conn) ==
    LET addr == cmd.serial
        one(out, c, d) == [stdout |-> out, conn |-> c, dev |-> d]
    IN IF b \notin {"exit0", "nonzero"} THEN {one(<<>>, conn, 0)}
       ELSE IF cmd.sub = "connect"
       THEN IF p \in conn
            THEN {one(MsgAlready(addr), conn, p)}
            ELSE IF b = "exit0"
                 THEN {one(MsgConnected(addr), conn \cup {p}, p),
                       one(MsgConnectedCap(addr), conn \cup {p}, p),
                       one(MsgFailed(addr), conn, 0)}
                 ELSE {one(MsgFailed(addr), conn, 0), one(<<>>, conn, 0)}
       ELSE IF cmd.sub = "disconnect"
       THEN IF p \in conn
            THEN IF b = "exit0" THEN {one(MsgDisconnected(addr), conn \ {p}, p)} ELSE {}
            ELSE IF b = "nonzero" THEN {one(MsgNoSuchDevice(addr), conn, 0)} ELSE {}
       ELSE IF b = "nonzero" THEN {one(<<>>, conn, 0)}
       ELSE IF Cardinality(conn) # 1 THEN {}
       ELSE LET d == CHOOSE q \in conn : TRUE
            IN IF cmd.sub = "dumpsys"
               THEN {one(MsgDisplays, conn, d), one(<<>>, conn, d)}
               ELSE {one(<<>>, conn, d)}

-----------------------------------------------------------------------------
\* ADBController operations, called by the session that owns the controller

\* largest max_offset argument tried for swipe
MaxSwipeOffset == 1

\* the points clicked, and the swipes of swipe_left and swipe_right
ClickPoints == {<<500, 500>>, <<960, 540>>}
SwipeLines == {<<480, 540, 1440, 540>>, <<1440, 540, 480, 540>>}

NoOp == [name |-> "none", port |-> 0, base |-> <<>>, max_offset |-> 0]

NoRun == [behaviour |-> "none", kind |-> "none", stdout |-> <<>>, dev |-> 0,
          wasConnected |-> FALSE]

BrInit ==
    /\ brPc = "idle"
    /\ brOp = NoOp
    /\ brCmd = NoCmd
    /\ brRun = NoRun
    /\ brRet = "none"
    /\ brLog = <<>>
    /\ brEnded = <<>>
    /\ connected = {}

\* operation `op` starts and issues the command cmd
Issue(op, cmd) ==
    /\ brPc = "idle"
    /\ brPc' = "run"
    /\ brOp' = op
    /\ brCmd' = cmd
    /\ brLog' = <<cmd>>
    /\ brEnded' = <<>>
    /\ brRun' = NoRun
    /\ brRet' = "none"
    /\ UNCHANGED connected
    /\ UNCHANGED notBr

\* connect(port) on the controller of that port; self._connection_lock is
\* taken for the whole call and is free here, the controller having one caller
connect_call(port) ==
    /\ brPc = "idle"
    /\ Issue([NoOp EXCEPT !.name = "connect", !.port = port], ConnectCmd(Host, port))

\* disconnect(port) on the controller of that port
disconnect_call(port) ==
    /\ brPc = "idle"
    /\ Issue([NoOp EXCEPT !.name = "disconnect", !.port = port], DisconnectCmd(Host, port))

\* get_current_display_resolution()
get_current_display_resolution_call(port) ==
    /\ brPc = "idle"
    /\ Issue([NoOp EXCEPT !.name = "get_current_display_resolution", !.port = port],
       DumpsysCmd)

\* download_window_dump(xml_path): the dump command is issued first
download_window_dump_call(port) ==
    /\ brPc = "idle"
    /\ Issue([NoOp EXCEPT !.name = "download_window_dump", !.port = port], DumpCmd)

\* close_simulator_game(package_name)
close_simulator_game_call(port) ==
    /\ brPc = "idle"
    /\ Issue([NoOp EXCEPT !.name = "close_simulator_game", !.port = port], ForceStopCmd)

\* click(base_x, base_y, max_offset): the offsets are drawn and one tap is
\* issued; when randint raises (max_offset < 0) the except clause returns
\* False and no command is issued
click_call(port, base, max_offset) ==
    LET op == [NoOp EXCEPT !.name = "click", !.port = port, !.base = base,
                           !.max_offset = max_offset]
    IN \/ /\ RandInt(-max_offset, max_offset) = {}
          /\ brPc = "idle"
          /\ brPc' = "done"
          /\ brOp' = op
          /\ brCmd' = NoCmd
          /\ brLog' = <<>>
          /\ brEnded' = <<>>
          /\ brRun' = NoRun
          /\ brRet' = "False"
          /\ UNCHANGED connected
          /\ UNCHANGED notBr
       \/ /\ brPc = "idle"
          /\ \E offset_x, offset_y \in RandInt(-max_offset, max_offset) :
                 Issue(op, TapCmd(base[1] + offset_x, base[2] + offset_y))

\* swipe(base_x1, base_y1, base_x2, base_y2, duration=900, max_offset)
swipe_call(port, base, max_offset) ==
    /\ brPc = "idle"
    /\ \E o1, o2, o3, o4 \in RandInt(-max_offset, max_offset) :
        Issue([NoOp EXCEPT !.name = "swipe", !.port = port, !.base = base,
                           !.max_offset = max_offset],
              SwipeCmd(base[1] + o1, base[2] + o2, base[3] + o3, base[4] + o4, 900))

\* what the operation returns once subprocess.run has ended as `kind`
OpReturn(op, kind, out) ==
    CASE op.name = "connect" -> BoolStr(connect(kind, out))
      [] op.name = "disconnect" ->
            IF disconnect(kind).raised THEN "raised" ELSE BoolStr(disconnect(kind).value)
      [] op.name = "get_current_display_resolution" ->
            get_current_display_resolution(kind, out)
      [] op.name = "download_window_dump" -> download_window_dump(kind)
      [] op.name = "close_simulator_game" -> close_simulator_game(kind)
      [] op.name \in {"click", "swipe"} -> click(kind)

\* the command in flight ends, behaving as b, with one of the replies the adb
\* server can give: subprocess.run returns or raises, or waits for ever;
\* download_window_dump goes on to the pull after a completed dump; otherwise
\* the operation returns
command_ends(b) ==
    /\ brPc = "run"
    /\ \E r \in Replies(brCmd, brOp.port, b, connected) :
          LET kind == SubprocessRun(brCmd, b)
              run == [behaviour |-> b, kind |-> kind, stdout |-> r.stdout,
                      dev |-> r.dev, wasConnected |-> brOp.port \in connected]
          IN /\ connected' = r.conn
             /\ brRun' = run
             /\ brEnded' = Append(brEnded, b)
             /\ IF kind = "blocked"
                THEN brPc' = "hung" /\ UNCHANGED <<brCmd, brLog, brRet>>
                ELSE IF brCmd.sub = "dump" /\ kind = "completed"
                THEN /\ brPc' = "run"
                     /\ brCmd' = PullCmd
                     /\ brLog' = Append(brLog, PullCmd)
                     /\ UNCHANGED brRet
                ELSE /\ brPc' = "done"
                     /\ brCmd' = NoCmd
                     /\ brRet' = OpReturn(brOp, kind, r.stdout)
                     /\ UNCHANGED brLog
    /\ UNCHANGED brOp
    /\ UNCHANGED notBr

\* the caller has the result and is ready for its next call
operation_returns ==
    /\ brPc = "done"
    /\ brPc' = "idle"
    /\ brOp' = NoOp
    /\ brCmd' = NoCmd
    /\ brRun' = NoRun
    /\ brRet' = "none"
    /\ brLog' = <<>>
    /\ brEnded' = <<>>
    /\ UNCHANGED connected
    /\ UNCHANGED notBr

\* another session's emulator instance gets connected to the adb server
emulator_connects(p) ==
    /\ p \notin connected
    /\ connected' = connected \cup {p}
    /\ UNCHANGED <<brPc, brOp, brCmd, brRun, brRet, brLog, brEnded>>
    /\ UNCHANGED notBr

\* an emulator instance goes away
emulator_disconnects(p) ==
    /\ p \in connected
    /\ connected' = connected \ {p}
    /\ UNCHANGED <<brPc, brOp, brCmd, brRun, brRet, brLog, brEnded>>
    /\ UNCHANGED notBr

-----------------------------------------------------------------------------
\* ImageController.get_simulator_ui_bounds: the bounds attribute

\* the digit a character stands for
DigitVal(c) == CHOOSE d \in 0..9 : DigitChar(d) = c

IsDigit(c) == \E d \in 0..9 : DigitChar(d) = c

\* the value of a non-empty run of digits
RECURSIVE DigitsVal(_)
DigitsVal(s) == IF Len(s) = 1 THEN DigitVal(s[1])
                ELSE 10 * DigitsVal(SubSeq(s, 1, Len(s) - 1)) + DigitVal(s[Len(s)])

\* int(s): white space around the literal is dropped, one sign is allowed,
\* then at least one digit; anything else raises ValueError (ok |-> FALSE)
PyInt(s) ==
    LET t == Strip(s)
        signed == t # <<>> /\ t[1] \in {"+", "-"}
        digits == IF signed THEN Tail(t) ELSE t
        ok == digits # <<>> /\ \A i \in 1..Len(digits) : IsDigit(digits[i])
    IN [ok |-> ok,
        v |-> IF ~ok THEN 0
              ELSE IF signed /\ t[1] = "-" THEN 0 - DigitsVal(digits)
              ELSE DigitsVal(digits)]

\* s.replace(old, new) for a one-character old
RECURSIVE Replace(_, _, _)
Replace(s, old, new) ==
    IF s = <<>> THEN <<>>
    ELSE (IF Head(s) = old THEN new ELSE <<Head(s)>>) \o Replace(Tail(s), old, new)

\* s.split(sep) for a one-character sep: the pieces between the separators
RECURSIVE Split(_, _)
Split(s, sep) ==
    IF \A i \in 1..Len(s) : s[i] # sep THEN <<s>>
    ELSE LET i == CHOOSE j \in 1..Len(s) :
                      s[j] = sep /\ \A k \in 1..(j - 1) : s[k] # sep
         IN <<SubSeq(s, 1, i - 1)>> \o Split(SubSeq(s, i + 1, Len(s)), sep)

\* left, top, right, bottom =
\*     map(int, bounds.replace("[", "").replace("]", ",").split(",")[:-1])
\* raises ValueError (ok |-> FALSE) unless exactly four pieces remain and
\* int() takes each of them
ParseBounds(bounds) ==
    LET pieces == Split(Replace(Replace(bounds, "[", <<>>), "]", <<",">>), ",")
        fields == SubSeq(pieces, 1, Len(pieces) - 1)
        ok == Len(fields) = 4 /\ \A i \in 1..4 : PyInt(fields[i]).ok
    IN [ok |-> ok,
        v |-> IF ok THEN [i \in 1..4 |-> PyInt(fields[i]).v] ELSE <<0, 0, 0, 0>>]

\* center_x = (left + right) // 2, center_y = (top + bottom) // 2
Center(v) == <<(v[1] + v[3]) \div 2, (v[2] + v[4]) \div 2>>

-----------------------------------------------------------------------------
\* ImageController.get_simulator_ui_bounds: the snapshot and the scan

\* most node elements in a snapshot
MaxNodes == 2

\* rectangles whose bounds attribute uiautomator writes as "[l,t][r,b]"
Rects == {<<100, 200, 300, 400>>, <<0, 0, 101, 51>>}

\* the bounds attribute of a node covering rectangle r
FormatBounds(r) ==
    <<"[">> \o Str(r[1]) \o <<",">> \o Str(r[2]) \o <<"]", "[">>
            \o Str(r[3]) \o <<",">> \o Str(r[4]) \o <<"]">>

\* bounds attributes that do not have that form: one corner only, text after
\* the second corner, a field that is not a number
BoundsOneCorner == <<"[", "1", "0", "0", ",", "2", "0", "0", "]">>
BoundsTrailingText == FormatBounds(<<100, 200, 300, 400>>) \o <<"x">>
BoundsNotANumber == <<"[", "a", ",", "0", "]", "[", "1", ",", "1", "]">>

\* the bounds attributes tried; <<>> is a node with no or an empty bounds
\* attribute (node.get gives None or "", both false in `if bounds:`)
BoundsTried ==
    {FormatBounds(r) : r \in Rects}
        \cup {<<>>, BoundsOneCorner, BoundsTrailingText, BoundsNotANumber}

\* values of the queried attribute tried; "" is a node on which the attribute
\* is empty or absent (node.get gives "" or None, both false)
ValuesTried == {"X", "Y", ""}

\* search_value arguments tried
QueriesTried == {"X", ""}

\* a node element: the value of the attribute named by search_by, and bounds
Nodes == [value : ValuesTried, bounds : BoundsTried]

\* what a completed pull can leave at unique_xml_path: a well-formed document
\* with its node elements in document order (the order of
\* root.findall('.//node')), a file that is not well-formed XML, or no file
Snapshots ==
    [xml : {"ok"}, nodes : UNION {[1..n -> Nodes] : n \in 0..MaxNodes}]
        \cup {[xml |-> "garbled", nodes |-> <<>>], [xml |-> "missing", nodes |-> <<>>]}

NoSnap == [xml |-> "none", nodes |-> <<>>]
NoResult == [kind |-> "none", xy |-> <<0, 0>>]
ReturnNone == [kind |-> "None", xy |-> <<0, 0>>]

\* the for loop over the nodes from the i-th on: it returns the centre of the
\* first node whose value is true and equal to search_value and whose bounds
\* is true, raises ValueError when that bounds does not parse, and ends
\* ("exhausted") when there is no such node
RECURSIVE ScanFrom(_, _, _)
ScanFrom(nodes, i, search_value) ==
    IF i > Len(nodes) THEN [kind |-> "exhausted", xy |-> <<0, 0>>]
    ELSE LET current_value == nodes[i].value
             bounds == nodes[i].bounds
         IN IF current_value # "" /\ current_value = search_value /\ bounds # <<>>
            THEN IF ParseBounds(bounds).ok
                 THEN [kind |-> "return", xy |-> Center(ParseBounds(bounds).v)]
                 ELSE [kind |-> "ValueError", xy |-> <<0, 0>>]
            ELSE ScanFrom(nodes, i + 1, search_value)

\* the scan taking the nodes in reverse document order
ScanBackwards(nodes, search_value) ==
    ScanFrom([i \in 1..Len(nodes) |-> nodes[Len(nodes) + 1 - i]], 1, search_value)

\* for node in root.findall('.//node'): ...
Scan(nodes, search_value) == ScanFrom(nodes, 1, search_value)

\* ET.parse(unique_xml_path) and the scan
ParseAndScan(snap, search_value) ==
    CASE snap.xml = "missing" -> [kind |-> "FileNotFoundError", xy |-> <<0, 0>>]
      [] snap.xml = "garbled" -> [kind |-> "ParseError", xy |-> <<0, 0>>]
      [] snap.xml = "ok" -> Scan(snap.nodes, search_value)

\* the file left where it is
KeepSnapshot(exists) == exists

\* os.remove(unique_xml_path) after a scan that found nothing
RemoveSnapshot(exists) == FALSE

\* adb.download_window_dump(unique_xml_path) with the dump behaving as b1 and
\* the pull as b2: "True", "False", or "hung" when a command never ends
DownloadWindowDump(b1, b2) ==
    LET dump == SubprocessRun(DumpCmd, b1)
        pull == SubprocessRun(PullCmd, b2)
    IN IF dump = "blocked" THEN "hung"
       ELSE IF dump # "completed" THEN download_window_dump(dump)
       ELSE IF pull = "blocked" THEN "hung"
       ELSE download_window_dump(pull)

\* the results adb.download_window_dump can have
DownloadResults == {DownloadWindowDump(b1, b2) : b1, b2 \in CmdBehaviours}

LocInit ==
    /\ locPc = "idle"
    /\ locQuery = ""
    /\ locFile = FALSE
    /\ locSnap = NoSnap
    /\ locRet = NoResult

\* get_simulator_ui_bounds(search_value, search_by) up to the download: a
\* failed download returns None; a completed pull leaves one of Snapshots
get_simulator_ui_bounds_call(search_value, downloaded) ==
    /\ locPc = "idle"
    /\ locQuery' = search_value
    /\ CASE downloaded = "hung" ->
               locPc' = "hung" /\ UNCHANGED <<locFile, locSnap, locRet>>
         [] downloaded = "False" ->
               locPc' = "done" /\ locRet' = ReturnNone /\ UNCHANGED <<locFile, locSnap>>
         [] downloaded = "True" ->
               \E snap \in Snapshots :
                   /\ locPc' = "pulled"
                   /\ locSnap' = snap
                   /\ locFile' = (snap.xml # "missing")
                   /\ UNCHANGED locRet
    /\ UNCHANGED notLoc

\* the else branch: parse, scan, and the except clauses, which all end in
\* None; the file is removed only after a scan that found nothing
get_simulator_ui_bounds_scan ==
    /\ locPc = "pulled"
    /\ locPc' = "done"
    /\ LET r == ParseAndScan(locSnap, locQuery)
       IN CASE r.kind = "return" ->
                 locRet' = [kind |-> "point", xy |-> r.xy] /\ UNCHANGED locFile
            [] r.kind = "exhausted" ->
                 locRet' = ReturnNone /\ locFile' = RemoveSnapshot(locFile)
            [] r.kind \in {"FileNotFoundError", "ParseError", "ValueError"} ->
                 locRet' = ReturnNone /\ UNCHANGED locFile
    /\ UNCHANGED <<locQuery, locSnap>>
    /\ UNCHANGED notLoc

\* the caller has the result
get_simulator_ui_bounds_returns ==
    /\ locPc = "done"
    /\ locPc' = "idle"
    /\ locQuery' = ""
    /\ locSnap' = NoSnap
    /\ locRet' = NoResult
    /\ UNCHANGED locFile
    /\ UNCHANGED notLoc

-----------------------------------------------------------------------------
\* ImageController.check_resolution_ratio

\* resolutions `cur=WxH` tried
Resolutions ==
    {<<1920, 1080>>, <<1080, 1920>>, <<800, 600>>, <<1280, 720>>, <<1920, 1075>>,
     <<1920, 1200>>, <<2560, 1440>>, <<1440, 2560>>}

Max(a, b) == IF a >= b THEN a ELSE b
Min(a, b) == IF a <= b THEN a ELSE b

\* abs(current_ratio - target_ratio) > 0.01, with ratio = max / min, compared
\* in exact arithmetic:  |a/b - c/d| > 1/100  <=>  100 * |a*d - c*b| > b*d
RatioOff(current_width, current_height, target_width, target_height) ==
    LET a == Max(current_width, current_height)
        b == Min(current_width, current_height)
        c == Max(target_width, target_height)
        d == Min(target_width, target_height)
        diff == IF a * d >= c * b THEN a * d - c * b ELSE c * b - a * d
    IN 100 * diff > b * d

\* the check without the test of the ratio
check_resolution_ratio_any_ratio(resolution, target_width, target_height) ==
    IF resolution = <<>> THEN "raised"
    ELSE LET current_width == resolution[1]
             current_height == resolution[2]
         IN IF \/ (current_width < target_width /\ current_height < target_height)
               \/ (current_width < target_height /\ current_height < target_width)
            THEN "None"
            ELSE IF (current_width < current_height) # (target_width < target_height)
            THEN "None"
            ELSE "True"

\* check_resolution_ratio(target_width, target_height) when
\* get_current_display_resolution gave `resolution` (<<>> for None): it raises
\* on None, returns True from the last branch only, and falls off the end of
\* the function (None) in the three branches that only log
check_resolution_ratio(resolution, target_width, target_height) ==
    IF resolution = <<>> THEN "raised"
    ELSE LET current_width == resolution[1]
             current_height == resolution[2]
         IN IF \/ (current_width < target_width /\ current_height < target_height)
               \/ (current_width < target_height /\ current_height < target_width)
            THEN "None"
            ELSE IF RatioOff(current_width, current_height, target_width, target_height)
            THEN "None"
            ELSE IF (current_width < current_height) # (target_width < target_height)
            THEN "None"
            ELSE "True"

-----------------------------------------------------------------------------
\* MuMuSimulator.run, check_init and launcher_simulator_game

\* largest total the page indicator shows
MaxPages == 3

\* what _get_simulator_screen_info can read from the page indicator
\* "第c屏，共n屏": nothing (it returns False), or page c of n
ScreenInfos ==
    {[ok |-> FALSE, count |-> 0, page |-> 0]}
        \cup UNION {{[ok |-> TRUE, count |-> c, page |-> n] : c \in 1..n} :
                        n \in 1..MaxPages}

\* outcomes of a get_simulator_ui_bounds call made by the launcher
LocateOutcomes == {"found", "notfound", "hung"}

\* the results self.simulator.adb.close_simulator_game can have
CloseGameResults ==
    {IF SubprocessRun(ForceStopCmd, b) = "blocked" THEN "hung"
     ELSE close_simulator_game(SubprocessRun(ForceStopCmd, b)) : b \in CmdBehaviours}

\* range(a, b), with b included
RangeInclusive(a, b) == a..b

\* range(a, b)
Range(a, b) == a..(b - 1)

\* run going on to connect whatever start_simulator returned
AfterStartAlways(started) == "connect"

\* lines 55-64: connect after a successful start, else the run ends
AfterStart(started) == IF started THEN "connect" ELSE "done"

\* the swipe of one pass with the parity test turned round
SwipeOfEvenLeft(cnt, attempt) ==
    IF cnt > 1 THEN (IF attempt % 2 = 0 THEN "left" ELSE "right") ELSE "right"

\* the swipe of one pass of the loop: swipe_left on odd passes when
\* self.count > 1, swipe_right otherwise
SwipeOf(cnt, attempt) ==
    IF cnt > 1 THEN (IF attempt % 2 = 1 THEN "left" ELSE "right") ELSE "right"

NoTrace == <<>>

\* a file path: the directories, and the file name as os.path.splitext cuts it
NoPath == [dir |-> <<>>, base |-> <<>>, ext |-> <<>>]

\* os.path.dirname of a directory path
Dirname(dir) == SubSeq(dir, 1, Len(dir) - 1)

\* os.path.join(os.path.dirname(os.path.dirname(os.path.abspath(__file__))),
\*              "res", "xml", "window_dump.xml") for a module in directory dir
XmlPathUnder(dir) ==
    [dir |-> Dirname(dir) \o <<"res", "xml">>,
     base |-> <<"w", "i", "n", "d", "o", "w", "_", "d", "u", "m", "p">>,
     ext |-> <<".", "x", "m", "l">>]

\* MuMuSimulator.xml_path: the module is
\* src/simulator/implementations/mumu/simulator_mumu.py
LauncherXmlPath == XmlPathUnder(<<"src", "simulator", "implementations", "mumu">>)

\* ImageController.xml_path: the module is
\* src/simulator_models/image/image_controller.py
ImageXmlPath == XmlPathUnder(<<"src", "simulator_models", "image">>)

\* unique_xml_path of get_simulator_ui_bounds:
\* os.path.join(xml_dir, f"{base_name}_{self.port}_{self.account}{ext}")
UniqueXmlPath(xml_path, port, account) ==
    [xml_path EXCEPT !.base = @ \o <<"_">> \o Str(port) \o <<"_">> \o account]

\* the port and account of the session, as main.py gives them
SessionPort == 16384
SessionAccount == <<"t", "e", "s", "t">>

LnInit ==
    /\ lnPc = "idle"
    /\ lnTrace = NoTrace
    /\ lnRes = <<>>
    /\ lnChk = "none"
    /\ lnRet = "none"
    /\ page = 0
    /\ count = 0
    /\ lnRange = {}
    /\ lnAttempt = 0
    /\ lnTries = 0
    /\ lnSwipes = <<>>
    /\ lnRead = -1
    /\ lnCounts = <<>>
    /\ lnClosed = "none"
    /\ lnReadFrom = NoPath
    /\ lnPullPaths = {}
    /\ lnTap = "none"
    /\ devPages = 0
    /\ devPage = 0
    /\ devIcon = 0

\* the variables of launcher_simulator_game
launchVars == <<page, count, lnRange, lnAttempt, lnTries, lnSwipes, lnRead,
                lnCounts, lnClosed, lnReadFrom, lnTap, devPages, devPage, devIcon>>

\* the device
device == <<devPages, devPage, devIcon>>

\* step `step` of run ended as ok
Did(step, ok) == Append(lnTrace, [step |-> step, ok |-> ok])

\* run() is called
run_call ==
    /\ lnPc = "idle"
    /\ lnPc' = "is_running"
    /\ UNCHANGED <<lnTrace, lnRes, lnChk, lnRet, launchVars, lnPullPaths>>
    /\ UNCHANGED notLn

\* if self.is_running_simulator(): ... else: start
is_running_simulator_step(running) ==
    /\ lnPc = "is_running"
    /\ lnPc' = IF running THEN "connect" ELSE "start"
    /\ lnTrace' = Did("is_running", running)
    /\ UNCHANGED <<lnRes, lnChk, lnRet, launchVars, lnPullPaths>>
    /\ UNCHANGED notLn

\* if self.start_simulator(): ... else: return result
start_simulator_step(started) ==
    /\ lnPc = "start"
    /\ lnPc' = AfterStart(started)
    /\ lnTrace' = Did("start", started)
    /\ lnRet' = IF AfterStart(started) = "done" THEN "False" ELSE lnRet
    /\ UNCHANGED <<lnRes, lnChk, launchVars, lnPullPaths>>
    /\ UNCHANGED notLn

\* if self.connect_simulator(): ... else: return result
connect_simulator_step(ok) ==
    /\ lnPc = "connect"
    /\ lnPc' = IF ok THEN "check" ELSE "done"
    /\ lnTrace' = Did("connect", ok)
    /\ lnRet' = IF ok THEN lnRet ELSE "False"
    /\ UNCHANGED <<lnRes, lnChk, launchVars, lnPullPaths>>
    /\ UNCHANGED notLn

\* check_init: check_resolution_ratio(1920, 1080); when it raises, the
\* exception passes through check_init and through the try/finally of run;
\* when it gives None, check_init gives None and run returns result (False)
check_init_step(resolution) ==
    /\ lnPc = "check"
    /\ lnRes' = resolution
    /\ lnChk' = check_resolution_ratio(resolution, 1920, 1080)
    /\ lnTrace' = Did("check", check_resolution_ratio(resolution, 1920, 1080) = "True")
    /\ CASE check_resolution_ratio(resolution, 1920, 1080) = "True" ->
               lnPc' = "close_ad" /\ UNCHANGED lnRet
         [] check_resolution_ratio(resolution, 1920, 1080) = "None" ->
               lnPc' = "done" /\ lnRet' = "False"
         [] check_resolution_ratio(resolution, 1920, 1080) = "raised" ->
               lnPc' = "done" /\ lnRet' = "raised"
    /\ UNCHANGED <<launchVars, lnPullPaths>>
    /\ UNCHANGED notLn

\* _close_simulator_Ad: True whether or not the close button was found
close_simulator_Ad_step(located) ==
    /\ lnPc = "close_ad"
    /\ lnPc' = IF located = "hung" THEN "hung" ELSE "close_game"
    /\ lnRes' = <<>>
    /\ lnChk' = "none"
    /\ lnPullPaths' = lnPullPaths \cup {UniqueXmlPath(ImageXmlPath, SessionPort, SessionAccount)}
    /\ UNCHANGED <<lnTrace, lnRet, launchVars>>
    /\ UNCHANGED notLn

\* launcher_simulator_game, lines 182-183: the game is force-stopped, and
\* only when that succeeded the screen data are refreshed, reading info
launcher_simulator_game_close(closed, info) ==
    /\ lnPc = "close_game"
    /\ closed \in {"True", "False", "hung"}
    /\ lnPc' = IF closed = "hung" THEN "hung" ELSE "try_launch"
    /\ page' = IF closed = "True" /\ info.ok THEN info.page ELSE page
    /\ count' = IF closed = "True" /\ info.ok THEN info.count ELSE count
    /\ lnRead' = IF closed = "True" /\ info.ok THEN info.page ELSE -1
    /\ lnClosed' = closed
    /\ lnReadFrom' = IF closed = "True" THEN LauncherXmlPath ELSE NoPath
    /\ lnCounts' = <<>>
    /\ lnRange' = {}
    /\ lnAttempt' = 0
    /\ lnTries' = 0
    /\ lnSwipes' = <<>>
    /\ lnTap' = "none"
    /\ UNCHANGED <<lnTrace, lnRes, lnChk, lnRet, lnPullPaths, device>>
    /\ UNCHANGED notLn

\* a swipe on the device: a left swipe shows the page before (towards page
\* 1), a right swipe the page after, where there is one
Move(shown, pages, swipe) ==
    IF pages = 0 THEN shown
    ELSE IF swipe = "left" THEN Max(shown - 1, 1) ELSE Min(shown + 1, pages)

\* _try_launch with the icon located: click(bounds[0], bounds[1]) is called,
\* what it returns is dropped, and True is returned
TryLaunch(tapped) == [tap |-> tapped, ret |-> TRUE]

\* _try_launch, before the loop and in it: found returns True; not found
\* enters the loop (range(1, self.page + 1) is evaluated then) or goes to
\* its next pass, and returns False when the range is used up
try_launch_step(located, tapped) ==
    /\ lnPc = "try_launch"
    /\ lnTries' = lnTries + 1
    /\ lnTap' = IF located = "found" THEN TryLaunch(tapped).tap ELSE lnTap
    /\ CASE located = "hung" ->
               lnPc' = "hung" /\ UNCHANGED <<lnTrace, lnRet, lnRange, lnAttempt>>
         [] located = "found" /\ TryLaunch(tapped).ret ->
               /\ lnPc' = "done"
               /\ lnRet' = "True"
               /\ lnTrace' = Did("launch", TRUE)
               /\ UNCHANGED <<lnRange, lnAttempt>>
         [] OTHER ->
               LET range == IF lnAttempt = 0 THEN Range(1, page + 1) ELSE lnRange
               IN /\ lnRange' = range
                  /\ lnAttempt' = lnAttempt + 1
                  /\ IF lnAttempt + 1 \in range
                     THEN lnPc' = "swipe" /\ UNCHANGED <<lnTrace, lnRet>>
                     ELSE /\ lnPc' = "done"
                          /\ lnRet' = "False"
                          /\ lnTrace' = Did("launch", FALSE)
    /\ lnPullPaths' = lnPullPaths \cup {UniqueXmlPath(ImageXmlPath, SessionPort, SessionAccount)}
    /\ UNCHANGED <<lnRes, lnChk, page, count, lnSwipes, lnRead, lnCounts, lnClosed, lnReadFrom,
                   device>>
    /\ UNCHANGED notLn

\* one pass of the loop up to its _try_launch: the swipe, whose result is
\* not looked at, and _refresh_screen, reading info
swipe_step(info) ==
    /\ lnPc = "swipe"
    /\ lnPc' = "try_launch"
    /\ lnSwipes' = Append(lnSwipes, SwipeOf(count, lnAttempt))
    /\ lnCounts' = Append(lnCounts, count)
    /\ lnReadFrom' = LauncherXmlPath
    /\ page' = IF info.ok THEN info.page ELSE page
    /\ count' = IF info.ok THEN info.count ELSE count
    /\ devPage' = Move(devPage, devPages, SwipeOf(count, lnAttempt))
    /\ UNCHANGED <<lnTrace, lnRes, lnChk, lnRet, lnRange, lnAttempt, lnTries, lnRead,
                   lnClosed, lnPullPaths, lnTap, devPages, devIcon>>
    /\ UNCHANGED notLn

\* the caller of run has the result, or the exception; self.page and
\* self.count stay as they are
run_returns ==
    /\ lnPc = "done"
    /\ lnPc' = "idle"
    /\ lnTrace' = NoTrace
    /\ lnRes' = <<>>
    /\ lnChk' = "none"
    /\ lnRet' = "none"
    /\ lnRange' = {}
    /\ lnAttempt' = 0
    /\ lnTries' = 0
    /\ lnSwipes' = <<>>
    /\ lnRead' = -1
    /\ lnCounts' = <<>>
    /\ lnClosed' = "none"
    /\ lnReadFrom' = NoPath
    /\ lnTap' = "none"
    /\ UNCHANGED <<page, count, lnPullPaths, device>>
    /\ UNCHANGED notLn

\* a device is described: it has `pages` home-screen pages, shows page
\* `shown` once the game is stopped, and has the game icon on page `icon`
device_shows(pages, shown, icon) ==
    /\ lnPc = "idle"
    /\ devPages' = pages
    /\ devPage' = shown
    /\ devIcon' = icon
    /\ UNCHANGED <<lnPc, lnTrace, lnRes, lnChk, lnRet, page, count, lnRange, lnAttempt,
                   lnTries, lnSwipes, lnRead, lnCounts, lnClosed, lnReadFrom, lnPullPaths,
                   lnTap>>
    /\ UNCHANGED notLn

\* the page indicator of the device when it shows page `shown`
Indicator(shown) == [ok |-> TRUE, count |-> shown, page |-> devPages]

\* the locate on the device: the icon is found on its page
Locate == IF devPage = devIcon THEN "found" ELSE "notfound"

-----------------------------------------------------------------------------
\* LogFactory and LogWrapper

MaxWrappers == 3
Wrappers == 1..MaxWrappers
NoWrapper == <<"none">>

\* the accounts loggers are asked for: none, "default" and "test"
LogAccounts == {<<>>, <<"d", "e", "f", "a", "u", "l", "t">>, <<"t", "e", "s", "t">>}

\* the level names of logging that the callers pass, and one that is none
LevelNames == {"DEBUG", "INFO"}
LevelsAsked == LevelNames \cup {"TRACE"}

\* getattr(logging, level.upper(), default)
LevelOf(level, default) == IF level \in LevelNames THEN level ELSE default

\* f"logger_{account}" if account else "logger_default"
LoggerKey(account) ==
    <<"l", "o", "g", "g", "e", "r", "_">>
        \o (IF account # <<>> THEN account ELSE <<"d", "e", "f", "a", "u", "l", "t">>)

\* f"title_logger_{account}" if account else "title_logger_default"
TitleLoggerKey(account) == <<"t", "i", "t", "l", "e", "_">> \o LoggerKey(account)

LogKeys == {LoggerKey(a) : a \in LogAccounts} \cup {TitleLoggerKey(a) : a \in LogAccounts}

NoHandlers == <<>>

\* the factory and the loggers of logging as one value
LogState == [loggers |-> loggers, log_handlers |-> log_handlers, handlers |-> handlers]

\* get_logger / get_title_logger on key: an unregistered key gets a console
\* and a file handler attached and stored; a registered key gets the level
\* of its stored console handler updated
GetLogger(st, key, level, default) ==
    IF key \notin st.loggers
    THEN LET console == [kind |-> "console", level |-> LevelOf(level, default)]
             file == [kind |-> "file", level |-> "DEBUG"]
         IN  [loggers |-> st.loggers \cup {key},
              log_handlers |-> [st.log_handlers EXCEPT ![key] = <<console, file>>],
              handlers |-> [st.handlers EXCEPT ![key] = @ \o <<console, file>>]]
    ELSE LET console == [kind |-> "console", level |-> LevelOf(level, "INFO")]
             SetLevel(h) == IF h.kind = "console" THEN console ELSE h
         IN  IF st.log_handlers[key] = NoHandlers THEN st
             ELSE [loggers |-> st.loggers,
                   log_handlers |-> [st.log_handlers EXCEPT ![key] = <<console, @[2]>>],
                   handlers |-> [st.handlers EXCEPT
                                   ![key] = [i \in DOMAIN @ |-> SetLevel(@[i])]]]

\* the part of remove_logger for one key: every handler of the logger is
\* closed and removed, the key leaves _loggers and _log_handlers
RemoveKey(st, key) ==
    IF key \in st.loggers
    THEN [loggers |-> st.loggers \ {key},
          log_handlers |-> [st.log_handlers EXCEPT ![key] = NoHandlers],
          handlers |-> [st.handlers EXCEPT ![key] = <<>>]]
    ELSE st

RemoveLogger(st, account) ==
    RemoveKey(RemoveKey(st, LoggerKey(account)), TitleLoggerKey(account))

LgInit ==
    /\ wrappers = [w \in Wrappers |-> NoWrapper]
    /\ loggers = {}
    /\ log_handlers = [k \in LogKeys |-> NoHandlers]
    /\ handlers = [k \in LogKeys |-> <<>>]

SetLogState(st) ==
    /\ loggers' = st.loggers
    /\ log_handlers' = st.log_handlers
    /\ handlers' = st.handlers

\* LogWrapper(component_name, port, account, simulator_type, level)
LogWrapper_init(w, account, level) ==
    /\ wrappers[w] = NoWrapper
    /\ wrappers' = [wrappers EXCEPT ![w] = account]
    /\ SetLogState(GetLogger(GetLogger(LogState, LoggerKey(account), level, "DEBUG"),
                             TitleLoggerKey(account), level, "INFO"))
    /\ UNCHANGED notLg

\* LogWrapper.__del__: the wrapper is collected
LogWrapper_del(w) ==
    /\ wrappers[w] # NoWrapper
    /\ wrappers' = [wrappers EXCEPT ![w] = NoWrapper]
    /\ SetLogState(RemoveLogger(LogState, wrappers[w]))
    /\ UNCHANGED notLg

NextLog ==
    \/ \E w \in Wrappers, account \in LogAccounts, level \in LevelsAsked :
           LogWrapper_init(w, account, level)
    \/ \E w \in Wrappers : LogWrapper_del(w)

-----------------------------------------------------------------------------
\* PluginManager: the registry and execute_plugin

\* plugin classes tried: the name and priority properties of their
\* instances; two classes share the name "c", two the priority 10
PluginClasses ==
    {[name |-> "a", priority |-> 50], [name |-> "b", priority |-> 10],
     [name |-> "c", priority |-> 30], [name |-> "c", priority |-> 10]}

PluginNames == {cls.name : cls \in PluginClasses}

\* plugin_names arguments tried: every list of names without repetition, and
\* one that names a plugin twice
NameLists ==
    {l \in UNION {[1..n -> PluginNames] : n \in 0..Cardinality(PluginNames)} :
        \A i, j \in 1..Len(l) : i # j => l[i] # l[j]}
        \cup {<<"a", "a">>}

NoPlugin == [name |-> "", priority |-> 0]

\* the positions of name in the dict (none or one)
Positions(dict, name) == {i \in 1..Len(dict) : dict[i].name = name}

\* self._plugins.get(name)
GetPlugin(dict, name) ==
    IF Positions(dict, name) = {} THEN NoPlugin
    ELSE dict[CHOOSE i \in Positions(dict, name) : TRUE]

\* self._plugins[plugin_name] = plugin_instance: a new name goes to the end,
\* an existing name keeps its place
SetPlugin(dict, inst) ==
    IF Positions(dict, inst.name) = {} THEN Append(dict, inst)
    ELSE [i \in 1..Len(dict) |-> IF dict[i].name = inst.name THEN inst ELSE dict[i]]

\* del self._plugins[name]
RECURSIVE DelPlugin(_, _)
DelPlugin(dict, name) ==
    IF dict = <<>> THEN <<>>
    ELSE IF Head(dict).name = name THEN Tail(dict)
    ELSE <<Head(dict)>> \o DelPlugin(Tail(dict), name)

execute_plugin_unchecked(dict, name, can, outcome) ==
    IF GetPlugin(dict, name) = NoPlugin
    THEN [raised |-> TRUE, what |-> "not_found", invoked |-> FALSE]
    ELSE [raised |-> outcome = "fault",
          what |-> IF outcome = "fault" THEN "fault" ELSE "result", invoked |-> TRUE]

\* execute_plugin(name) when can_execute gives can and execute ends as
\* outcome ("ok" or "fault"): ValueError for an unknown name and for a
\* refusal, both before execute is called; a fault of execute is logged and
\* raised again
execute_plugin(dict, name, can, outcome) ==
    IF GetPlugin(dict, name) = NoPlugin
    THEN [raised |-> TRUE, what |-> "not_found", invoked |-> FALSE]
    ELSE IF ~can
    THEN [raised |-> TRUE, what |-> "not_executable", invoked |-> FALSE]
    ELSE IF outcome = "fault"
    THEN [raised |-> TRUE, what |-> "fault", invoked |-> TRUE]
    ELSE [raised |-> FALSE, what |-> "result", invoked |-> TRUE]

\* list.sort(key=lambda p: p.priority) is stable: an element goes behind
\* every element already placed whose priority is not larger
RECURSIVE InsertByPriority(_, _)
InsertByPriority(sorted, p) ==
    IF sorted = <<>> THEN <<p>>
    ELSE IF Head(sorted).priority <= p.priority
    THEN <<Head(sorted)>> \o InsertByPriority(Tail(sorted), p)
    ELSE <<p>> \o sorted

KeepOrder(list) == list

RECURSIVE SortByPriority(_)
SortByPriority(list) ==
    IF list = <<>> THEN <<>>
    ELSE InsertByPriority(SortByPriority(SubSeq(list, 1, Len(list) - 1)),
                          list[Len(list)])

\* the loop that fills plugins_to_execute: the registered ones of
\* plugin_names, in the order of plugin_names
RECURSIVE PluginsToExecute(_, _)
PluginsToExecute(dict, plugin_names) ==
    IF plugin_names = <<>> THEN <<>>
    ELSE (IF GetPlugin(dict, Head(plugin_names)) = NoPlugin THEN <<>>
          ELSE <<GetPlugin(dict, Head(plugin_names))>>)
         \o PluginsToExecute(dict, Tail(plugin_names))

NoResults == [n \in {} |-> [kind |-> "", what |-> "", of |-> ""]]

LetFaultThrough(name, r) ==
    [halt |-> r.raised, entry |-> [kind |-> "result", what |-> r.what, of |-> name]]

\* the try/except around execute_plugin in the loop: whatever it raises
\* becomes the plugin's {"error": str(e)} entry and the loop goes on
CatchFault(name, r) ==
    [halt  |-> FALSE,
     entry |-> IF r.raised THEN [kind |-> "error", what |-> r.what, of |-> name]
               ELSE [kind |-> "result", what |-> r.what, of |-> name]]

NoCall == [op |-> "", names |-> <<>>, name |-> ""]
NoRet == [raised |-> FALSE, what |-> ""]

PmInit ==
    /\ pmPc = "idle"
    /\ pmOp = NoCall
    /\ plugins = <<>>
    /\ pmLock = {}
    /\ pmQueue = <<>>
    /\ pmResults = NoResults
    /\ pmRan = <<>>
    /\ pmRet = NoRet
    /\ pmBefore = <<>>
    /\ pmLeft = {}

\* _register_plugin(plugin_class): a fault of setup() is logged and the
\* instance is not stored; an instance already stored under the name is only
\* warned about and then replaced
register_plugin(plugin_class, setup_ok) ==
    /\ pmPc = "idle"
    /\ pmLock = {}
    /\ pmPc' = "done"
    /\ pmOp' = [NoCall EXCEPT !.op = "_register_plugin", !.name = plugin_class.name]
    /\ pmBefore' = plugins
    /\ IF setup_ok
       THEN /\ plugins' = SetPlugin(plugins, [name |-> plugin_class.name,
                                              priority |-> plugin_class.priority])
            /\ pmLeft' = {[plugin |-> plugins[i], by |-> "_register_plugin",
                           teardown |-> FALSE] :
                              i \in Positions(plugins, plugin_class.name)}
            /\ pmRet' = [raised |-> FALSE, what |-> "stored"]
       ELSE /\ UNCHANGED <<plugins, pmLeft>>
            /\ pmRet' = [raised |-> FALSE, what |-> "setup_fault"]
    /\ UNCHANGED <<pmLock, pmQueue, pmResults, pmRan>>
    /\ UNCHANGED notPm

\* execute_plugin(name) called directly
execute_plugin_call(name, can, outcome) ==
    /\ pmPc = "idle"
    /\ pmPc' = "done"
    /\ pmOp' = [NoCall EXCEPT !.op = "execute_plugin", !.name = name]
    /\ pmBefore' = plugins
    /\ LET r == execute_plugin(plugins, name, can, outcome) IN
        /\ pmRan' = <<[plugin |-> GetPlugin(plugins, name), can |-> can, r |-> r]>>
        /\ pmRet' = [raised |-> r.raised, what |-> r.what]
    /\ UNCHANGED <<plugins, pmLock, pmQueue, pmResults, pmLeft>>
    /\ UNCHANGED notPm

\* execute_plugins_by_priority(plugin_names), up to the loop
execute_plugins_by_priority_call(plugin_names) ==
    /\ pmPc = "idle"
    /\ pmPc' = "batch"
    /\ pmOp' = [NoCall EXCEPT !.op = "execute_plugins_by_priority",
                            !.names = plugin_names]
    /\ pmBefore' = plugins
    /\ pmQueue' = SortByPriority(PluginsToExecute(plugins, plugin_names))
    /\ pmResults' = NoResults
    /\ pmRan' = <<>>
    /\ UNCHANGED <<plugins, pmLock, pmRet, pmLeft>>
    /\ UNCHANGED notPm

\* one round of the loop
execute_plugins_by_priority_step(can, outcome) ==
    /\ pmPc = "batch"
    /\ pmQueue # <<>>
    /\ LET plugin == Head(pmQueue)
           r == execute_plugin(plugins, plugin.name, can, outcome)
           c == CatchFault(plugin.name, r)
       IN  /\ pmRan' = Append(pmRan, [plugin |-> plugin, can |-> can, r |-> r])
           /\ IF c.halt
              THEN /\ pmPc' = "done"
                   /\ pmRet' = [raised |-> TRUE, what |-> r.what]
                   /\ UNCHANGED pmResults
              ELSE /\ pmResults' = (plugin.name :> c.entry) @@ pmResults
                   /\ UNCHANGED <<pmPc, pmRet>>
    /\ pmQueue' = Tail(pmQueue)
    /\ UNCHANGED <<pmOp, plugins, pmLock, pmBefore, pmLeft>>
    /\ UNCHANGED notPm

\* return results
execute_plugins_by_priority_returns ==
    /\ pmPc = "batch"
    /\ pmQueue = <<>>
    /\ pmPc' = "done"
    /\ pmRet' = [raised |-> FALSE, what |-> "results"]
    /\ UNCHANGED <<pmOp, plugins, pmLock, pmQueue, pmResults, pmRan, pmBefore, pmLeft>>
    /\ UNCHANGED notPm

\* the body of unload_plugin once it holds the lock: teardown() and del; a
\* fault of teardown() is logged, the plugin stays and False is returned
UnloadLocked(dict, name, teardown_ok) ==
    IF Positions(dict, name) = {}
    THEN [dict |-> dict, left |-> {}, ret |-> "False"]
    ELSE IF ~teardown_ok
    THEN [dict |-> dict, left |-> {}, ret |-> "False"]
    ELSE [dict |-> DelPlugin(dict, name),
          left |-> {[plugin |-> GetPlugin(dict, name), by |-> "unload_plugin",
                     teardown |-> TRUE]},
          ret  |-> "True"]

\* unload_plugin(name)
unload_plugin(name, teardown_ok) ==
    /\ pmPc = "idle"
    /\ pmLock = {}
    /\ pmPc' = "done"
    /\ pmOp' = [NoCall EXCEPT !.op = "unload_plugin", !.name = name]
    /\ pmBefore' = plugins
    /\ LET u == UnloadLocked(plugins, name, teardown_ok) IN
        /\ plugins' = u.dict
        /\ pmLeft' = u.left
        /\ pmRet' = [raised |-> FALSE, what |-> u.ret]
    /\ UNCHANGED <<pmLock, pmQueue, pmResults, pmRan>>
    /\ UNCHANGED notPm

\* unload_all_plugins(), up to its loop: it takes self._lock and copies the
\* names
unload_all_plugins_call ==
    /\ pmPc = "idle"
    /\ pmLock = {}
    /\ pmLock' = {"unload_all_plugins"}
    /\ pmPc' = "unload_all"
    /\ pmOp' = [NoCall EXCEPT !.op = "unload_all_plugins"]
    /\ pmBefore' = plugins
    /\ pmQueue' = plugins
    /\ UNCHANGED <<plugins, pmResults, pmRan, pmRet, pmLeft>>
    /\ UNCHANGED notPm

\* one round of the loop of unload_all_plugins, or its end: the round calls
\* unload_plugin, which waits for self._lock (threading.Lock, not reentrant)
unload_all_plugins_step(teardown_ok) ==
    /\ pmPc = "unload_all"
    /\ IF pmQueue = <<>>
       THEN /\ pmLock' = {}
            /\ pmPc' = "done"
            /\ pmRet' = [raised |-> FALSE, what |-> "None"]
            /\ UNCHANGED <<plugins, pmQueue, pmLeft>>
       ELSE /\ pmLock = {}
            /\ LET u == UnloadLocked(plugins, Head(pmQueue).name, teardown_ok) IN
                /\ plugins' = u.dict
                /\ pmLeft' = pmLeft \cup u.left
            /\ pmQueue' = Tail(pmQueue)
            /\ UNCHANGED <<pmLock, pmPc, pmRet>>
    /\ UNCHANGED <<pmOp, pmResults, pmRan, pmBefore>>
    /\ UNCHANGED notPm

\* the caller has the outcome; the manager is ready for the next call
plugin_manager_returns ==
    /\ pmPc = "done"
    /\ pmPc' = "idle"
    /\ pmOp' = NoCall
    /\ pmQueue' = <<>>
    /\ pmResults' = NoResults
    /\ pmRan' = <<>>
    /\ pmRet' = NoRet
    /\ pmBefore' = <<>>
    /\ pmLeft' = {}
    /\ UNCHANGED <<plugins, pmLock>>
    /\ UNCHANGED notPm

NextPlugins ==
    \/ \E plugin_class \in PluginClasses, setup_ok \in BOOLEAN :
           register_plugin(plugin_class, setup_ok)
    \/ \E name \in PluginNames, can \in BOOLEAN, outcome \in {"ok", "fault"} :
           execute_plugin_call(name, can, outcome)
    \/ \E plugin_names \in NameLists : execute_plugins_by_priority_call(plugin_names)
    \/ \E can \in BOOLEAN, outcome \in {"ok", "fault"} :
           execute_plugins_by_priority_step(can, outcome)
    \/ execute_plugins_by_priority_returns
    \/ \E name \in PluginNames, teardown_ok \in BOOLEAN : unload_plugin(name, teardown_ok)
    \/ unload_all_plugins_call
    \/ \E teardown_ok \in BOOLEAN : unload_all_plugins_step(teardown_ok)
    \/ plugin_manager_returns

-----------------------------------------------------------------------------
\* PluginBase.execute_with_error_handling

\* what handle_error may answer; "ignore" stands for any other value
ErrorResolutions == {"resolved", "retry", "skip", "stop", "ignore"}

\* handlers tried: the answers given in turn, the last one repeated
MaxAnswers == 3
Handlers == UNION {[1..n -> ErrorResolutions] : n \in 1..MaxAnswers}
Answer(handler, k) == handler[Min(k, Len(handler))]

\* the interpreter's limit on nested calls (sys.getrecursionlimit()), in
\* frames of execute_with_error_handling
RecursionLimit == 4

ResolutionSkipIgnored(resolution) ==
    CASE resolution = "resolved" -> [does |-> "return", status |-> "success"]
      [] resolution = "retry"    -> [does |-> "recurse", status |-> ""]
      [] resolution = "stop"     -> [does |-> "raise", status |-> "stop"]
      [] OTHER                   -> [does |-> "return", status |-> "error"]

\* the if/elif chain on the handler's answer
Resolution(resolution) ==
    CASE resolution = "resolved" -> [does |-> "return", status |-> "success"]
      [] resolution = "retry"    -> [does |-> "recurse", status |-> ""]
      [] resolution = "skip"     -> [does |-> "return", status |-> "skipped"]
      [] resolution = "stop"     -> [does |-> "raise", status |-> "stop"]
      [] OTHER                   -> [does |-> "return", status |-> "error"]

RetryOnce(depth) == IF depth < 2 THEN "recurse" ELSE "give_up"

\* return self.execute_with_error_handling(**kwargs): a call inside the
\* except block, one frame deeper each time; the code counts nothing, the
\* interpreter raises RecursionError when the stack is full, and no frame
\* below catches it (each is inside its except block)
Retry(depth) == IF depth < RecursionLimit THEN "recurse" ELSE "RecursionError"

NoHandler == <<>>
NoOutcome == [does |-> "", status |-> ""]

EhInit ==
    /\ ehPc = "idle"
    /\ ehHandler = NoHandler
    /\ ehDepth = 0
    /\ ehInvocations = 0
    /\ ehFaults = 0
    /\ ehAnswers = <<>>
    /\ ehRunning = FALSE
    /\ ehRet = NoOutcome
    /\ ehPaused = FALSE
    /\ ehWait = "none"
    /\ ehStoppedAt = -1

\* what the calling thread leaves alone: the pause flag and the record of
\* stop()
threadFrame == <<ehPaused, ehStoppedAt>>

\* execute_with_error_handling(**kwargs) is called on a plugin whose
\* adapter's error handler is handler
execute_with_error_handling_call(handler) ==
    /\ ehPc = "idle"
    /\ ehPc' = "running"
    /\ ehHandler' = handler
    /\ ehDepth' = 1
    /\ UNCHANGED <<ehInvocations, ehFaults, ehAnswers, ehRunning, ehRet, ehWait, threadFrame>>
    /\ UNCHANGED notEh

NoFinally(running) == running

\* finally: with self._lock: self._is_running = False
Finally(running) == FALSE

\* the call ends: the finally blocks of the frames on the stack run
Ends(outcome) ==
    /\ ehPc' = "done"
    /\ ehDepth' = 0
    /\ ehRunning' = Finally(ehRunning)
    /\ ehRet' = outcome

\* a frame is entered: _is_running is set and execute() is called
execute_with_error_handling_frame ==
    /\ ehPc = "running"
    /\ ehPc' = "executing"
    /\ ehRunning' = TRUE
    /\ ehInvocations' = ehInvocations + 1
    /\ UNCHANGED <<ehHandler, ehDepth, ehFaults, ehAnswers, ehRet, ehWait, threadFrame>>
    /\ UNCHANGED notEh

\* execute() ends, with a fault or not; on a fault the handler is asked
\* (it may fault itself) and its answer acted on
execute_ends(faults, handler_faults) ==
    /\ ehPc = "executing"
    /\ ehWait = "none"
    /\ UNCHANGED <<ehHandler, ehInvocations, ehWait, threadFrame>>
    /\ IF ~faults
       THEN /\ Ends([does |-> "return", status |-> "result"])
            /\ UNCHANGED <<ehFaults, ehAnswers>>
       ELSE IF handler_faults
       THEN /\ Ends([does |-> "raise", status |-> "handler_fault"])
            /\ ehFaults' = ehFaults + 1
            /\ UNCHANGED ehAnswers
       ELSE LET resolution == Answer(ehHandler, Len(ehAnswers) + 1)
                res == Resolution(resolution)
            IN  /\ ehFaults' = ehFaults + 1
                /\ ehAnswers' = Append(ehAnswers, resolution)
                /\ IF res.does # "recurse" THEN Ends(res)
                   ELSE IF Retry(ehDepth) = "recurse"
                   THEN /\ ehDepth' = ehDepth + 1
                        /\ ehPc' = "running"
                        /\ UNCHANGED <<ehRunning, ehRet>>
                   ELSE IF Retry(ehDepth) = "RecursionError"
                   THEN Ends([does |-> "raise", status |-> "RecursionError"])
                   ELSE Ends([does |-> "return", status |-> "error"])
    /\ UNCHANGED notEh

\* the caller has the outcome
execute_with_error_handling_returns ==
    /\ ehPc = "done"
    /\ ehPc' = "idle"
    /\ ehHandler' = NoHandler
    /\ ehInvocations' = 0
    /\ ehFaults' = 0
    /\ ehAnswers' = <<>>
    /\ ehRet' = NoOutcome
    /\ ehStoppedAt' = -1
    /\ UNCHANGED <<ehDepth, ehRunning, ehPaused, ehWait>>
    /\ UNCHANGED notEh

NextHandling ==
    \/ \E handler \in Handlers : execute_with_error_handling_call(handler)
    \/ execute_with_error_handling_frame
    \/ \E faults, handler_faults \in BOOLEAN : execute_ends(faults, handler_faults)
    \/ execute_with_error_handling_returns

\* PluginBase: pause, resume, stop and wait_if_paused

wait_test_paused_only(at, paused, running) ==
    IF at = "test_paused" THEN (IF paused THEN "test_running" ELSE "none")
    ELSE "sleeping"

\* while self.is_paused() and self.is_running(): the two reads, each under
\* the lock, one after the other; "none" leaves the loop
wait_test(at, paused, running) ==
    IF at = "test_paused" THEN (IF paused THEN "test_running" ELSE "none")
    ELSE (IF running THEN "sleeping" ELSE "none")

\* execute() polls wait_if_paused()
wait_if_paused_call ==
    /\ ehPc = "executing"
    /\ ehWait = "none"
    /\ ehWait' = "test_paused"
    /\ UNCHANGED <<ehPc, ehHandler, ehDepth, ehInvocations, ehFaults, ehAnswers, ehRunning,
                   ehRet, threadFrame>>
    /\ UNCHANGED notEh

\* one read of the loop condition
wait_if_paused_test ==
    /\ ehWait \in {"test_paused", "test_running"}
    /\ ehWait' = wait_test(ehWait, ehPaused, ehRunning)
    /\ UNCHANGED <<ehPc, ehHandler, ehDepth, ehInvocations, ehFaults, ehAnswers, ehRunning,
                   ehRet, threadFrame>>
    /\ UNCHANGED notEh

\* time.sleep(0.1) is over
wait_if_paused_sleep ==
    /\ ehWait = "sleeping"
    /\ ehWait' = "test_paused"
    /\ UNCHANGED <<ehPc, ehHandler, ehDepth, ehInvocations, ehFaults, ehAnswers, ehRunning,
                   ehRet, threadFrame>>
    /\ UNCHANGED notEh

\* pause() by another thread
pause ==
    /\ ehPaused' = TRUE
    /\ UNCHANGED <<ehPc, ehHandler, ehDepth, ehInvocations, ehFaults, ehAnswers, ehRunning,
                   ehRet, ehWait, ehStoppedAt>>
    /\ UNCHANGED notEh

\* resume() by another thread
resume ==
    /\ ehPaused' = FALSE
    /\ UNCHANGED <<ehPc, ehHandler, ehDepth, ehInvocations, ehFaults, ehAnswers, ehRunning,
                   ehRet, ehWait, ehStoppedAt>>
    /\ UNCHANGED notEh

\* stop() by another thread
stop ==
    /\ ehRunning' = FALSE
    /\ ehStoppedAt' = IF ehPc \in {"running", "executing"} /\ ehInvocations > 0
                         /\ ehStoppedAt = -1
                      THEN ehInvocations ELSE ehStoppedAt
    /\ UNCHANGED <<ehPc, ehHandler, ehDepth, ehInvocations, ehFaults, ehAnswers, ehRet,
                   ehPaused, ehWait>>
    /\ UNCHANGED notEh

\* the steps of the thread inside wait_if_paused
WaitSteps == wait_if_paused_test \/ wait_if_paused_sleep

NextLifecycle ==
    \/ \E handler \in Handlers : execute_with_error_handling_call(handler)
    \/ execute_with_error_handling_frame
    \/ \E faults, handler_faults \in BOOLEAN : execute_ends(faults, handler_faults)
    \/ execute_with_error_handling_returns
    \/ wait_if_paused_call
    \/ wait_if_paused_test
    \/ wait_if_paused_sleep
    \/ pause
    \/ resume
    \/ stop

-----------------------------------------------------------------------------
\* One ADBController object called by several threads: connect and disconnect

\* the threads that call the controller
Callers == Threads \cup {3}

\* the port of the controller
ControllerPort == CHOOSE port \in Ports : \A other \in Ports : port <= other

CnInit ==
    /\ cnPc = [t \in Callers |-> "idle"]
    /\ cnLock = {}
    /\ cnCmd = [t \in Callers |-> NoCmd]
    /\ cnRet = [t \in Callers |-> "none"]
    /\ cnConnected = {}

\* a thread calls connect(port) and comes to `with self._connection_lock`
connect_enters(t) ==
    /\ cnPc[t] = "idle"
    /\ cnPc' = [cnPc EXCEPT ![t] = "connect_wait"]
    /\ cnRet' = [cnRet EXCEPT ![t] = "none"]
    /\ UNCHANGED <<cnLock, cnCmd, cnConnected>>
    /\ UNCHANGED notCn

\* the lock is taken and the connect command is run
connect_locked(t) ==
    /\ cnPc[t] = "connect_wait"
    /\ cnLock = {}
    /\ cnLock' = {t}
    /\ cnPc' = [cnPc EXCEPT ![t] = "connect_run"]
    /\ cnCmd' = [cnCmd EXCEPT ![t] = ConnectCmd(Host, ControllerPort)]
    /\ UNCHANGED <<cnRet, cnConnected>>
    /\ UNCHANGED notCn

\* the connect command ends, behaving as b; connect returns and the with
\* block is left
connect_ends(t, b) ==
    /\ cnPc[t] = "connect_run"
    /\ \E r \in Replies(cnCmd[t], ControllerPort, b, cnConnected) :
          /\ cnConnected' = r.conn
          /\ cnRet' = [cnRet EXCEPT ![t] =
                          BoolStr(connect(SubprocessRun(cnCmd[t], b), r.stdout))]
    /\ cnLock' = cnLock \ {t}
    /\ cnCmd' = [cnCmd EXCEPT ![t] = NoCmd]
    /\ cnPc' = [cnPc EXCEPT ![t] = "idle"]
    /\ UNCHANGED notCn

\* a thread calls disconnect(port): the command is run at once, no lock is
\* taken
disconnect_starts(t) ==
    /\ cnPc[t] = "idle"
    /\ cnPc' = [cnPc EXCEPT ![t] = "disconnect_run"]
    /\ cnCmd' = [cnCmd EXCEPT ![t] = DisconnectCmd(Host, ControllerPort)]
    /\ cnRet' = [cnRet EXCEPT ![t] = "none"]
    /\ UNCHANGED <<cnLock, cnConnected>>
    /\ UNCHANGED notCn

\* the disconnect command ends, behaving as b, and disconnect returns
disconnect_ends(t, b) ==
    /\ cnPc[t] = "disconnect_run"
    /\ \E r \in Replies(cnCmd[t], ControllerPort, b, cnConnected) :
          cnConnected' = r.conn
    /\ cnRet' = [cnRet EXCEPT ![t] = BoolStr(disconnect(SubprocessRun(cnCmd[t], b)).value)]
    /\ cnCmd' = [cnCmd EXCEPT ![t] = NoCmd]
    /\ cnPc' = [cnPc EXCEPT ![t] = "idle"]
    /\ UNCHANGED cnLock
    /\ UNCHANGED notCn

NextConnection ==
    \/ \E t \in Callers : connect_enters(t)
    \/ \E t \in Callers : connect_locked(t)
    \/ \E t \in Callers, b \in CmdBehaviours : connect_ends(t, b)
    \/ \E t \in Callers : disconnect_starts(t)
    \/ \E t \in Callers, b \in CmdBehaviours : disconnect_ends(t, b)

-----------------------------------------------------------------------------
\* Specifications

Init == RegInit /\ BrInit /\ LocInit /\ LnInit /\ PmInit /\ EhInit /\ CnInit /\ LgInit

\* threads calling SimulatorManager
Next ==
    \/ \E t \in Threads, port \in Ports, account \in Accounts :
           get_simulator_instance_call(t, port, account)
    \/ \E t \in Threads : get_simulator_instance_locked(t)
    \/ \E t \in Threads : get_simulator_instance_return(t)
    \/ \E t \in Threads, port \in Ports, account \in Accounts :
           release_simulator_instance_call(t, port, account)
    \/ \E t \in Threads : release_simulator_instance_locked(t)
    \/ \E t \in Threads, b \in CmdBehaviours : release_simulator_instance_cleanup(t, b)
    \/ \E t \in Threads : release_simulator_instance_return(t)

Spec == Init /\ [][Next]_vars

\* one session calling the operations of its ADBController, beside the
\* emulator instances of other sessions
NextBridge ==
    \/ \E port \in Ports : connect_call(port)
    \/ \E port \in Ports : disconnect_call(port)
    \/ \E port \in Ports : get_current_display_resolution_call(port)
    \/ \E port \in Ports : download_window_dump_call(port)
    \/ \E port \in Ports : close_simulator_game_call(port)
    \/ \E port \in Ports, base \in ClickPoints, m \in -1..MaxOffset :
           click_call(port, base, m)
    \/ \E port \in Ports, base \in SwipeLines, m \in 0..MaxSwipeOffset :
           swipe_call(port, base, m)
    \/ \E b \in CmdBehaviours : command_ends(b)
    \/ operation_returns
    \/ \E p \in Ports : emulator_connects(p)
    \/ \E p \in Ports : emulator_disconnects(p)

SpecBridge == Init /\ [][NextBridge]_vars

\* one session calling get_simulator_ui_bounds on its ImageController
NextLocator ==
    \/ \E search_value \in QueriesTried, downloaded \in DownloadResults :
           get_simulator_ui_bounds_call(search_value, downloaded)
    \/ get_simulator_ui_bounds_scan
    \/ get_simulator_ui_bounds_returns

SpecLocator == Init /\ [][NextLocator]_vars

\* one session calling run on its MuMuSimulator, time and again
NextLauncher ==
    \/ run_call
    \/ \E running \in BOOLEAN : is_running_simulator_step(running)
    \/ \E started \in BOOLEAN : start_simulator_step(started)
    \/ \E ok \in BOOLEAN : connect_simulator_step(ok)
    \/ \E resolution \in Resolutions \cup {<<>>} : check_init_step(resolution)
    \/ \E located \in LocateOutcomes : close_simulator_Ad_step(located)
    \/ \E closed \in CloseGameResults, info \in ScreenInfos :
           launcher_simulator_game_close(closed, info)
    \/ \E located \in LocateOutcomes, tapped \in {"True", "False"} :
           try_launch_step(located, tapped)
    \/ \E info \in ScreenInfos : swipe_step(info)
    \/ run_returns

SpecLauncher == Init /\ [][NextLauncher]_vars

\* the plugin manager alone
SpecPlugins == Init /\ [][NextPlugins]_vars

\* the launcher on a described device whose indicator is read truly after
\* the force-stop and after every swipe
NextSearch ==
    \/ \E pages \in 1..MaxPages : \E shown, icon \in 1..pages :
           device_shows(pages, shown, icon)
    \/ (devPages > 0 /\ run_call)
    \/ \E running \in BOOLEAN : is_running_simulator_step(running)
    \/ \E started \in BOOLEAN : start_simulator_step(started)
    \/ \E ok \in BOOLEAN : connect_simulator_step(ok)
    \/ \E resolution \in Resolutions : check_init_step(resolution)
    \/ close_simulator_Ad_step("notfound")
    \/ launcher_simulator_game_close("True", Indicator(devPage))
    \/ \E tapped \in {"True", "False"} : try_launch_step(Locate, tapped)
    \/ (lnPc = "swipe"
          /\ swipe_step(Indicator(Move(devPage, devPages, SwipeOf(count, lnAttempt)))))
    \/ run_returns

SpecSearch == Init /\ [][NextSearch]_vars

\* the log registry
SpecLog == Init /\ [][NextLog]_vars

\* one ADBController called by several threads
SpecConnection == Init /\ [][NextConnection]_vars

\* the plugin manager with its calling thread always scheduled
SpecPluginsFair == SpecPlugins /\ WF_vars(NextPlugins)

\* execute_with_error_handling alone
SpecHandling == Init /\ [][NextHandling]_vars

\* the same, with every started call carried on: the interpreter runs the
\* calling thread until the call ends
SpecHandlingFair == SpecHandling /\ WF_vars(NextHandling)

\* execute_with_error_handling with other threads calling pause, resume and
\* stop, and execute() polling wait_if_paused
SpecLifecycle == Init /\ [][NextLifecycle]_vars

\* the same under fair scheduling of the thread inside wait_if_paused
SpecLifecycleFair == SpecLifecycle /\ WF_vars(WaitSteps)

-----------------------------------------------------------------------------
\* Claims about SimulatorManager

\* every result a get_simulator_instance call has produced for an entry that
\* was not released since, the calls about to return included
Results ==
    got \cup {[port |-> arg[t].port, account |-> arg[t].account, thread |-> t,
               obj |-> ret[t]] : t \in {u \in Threads : pc[u] = "get_unlock"}}

SameTriple(g1, g2) ==
    g1.port = g2.port /\ g1.account = g2.account /\ g1.thread = g2.thread

\* C1: with no release in between, calls with the same (port, account) from
\* the same thread return the identical SimulatorInstance, which was
\* constructed exactly once, and calls whose (port, account, thread) differ
\* return distinct SimulatorInstance objects.
C1_OneInstancePerKey ==
    /\ \A g1, g2 \in Results : SameTriple(g1, g2) <=> g1.obj = g2.obj
    /\ \A g \in Results :
          /\ <<g.port, g.thread, g.account>> \in DOMAIN ctorCount
          /\ ctorCount[<<g.port, g.thread, g.account>>] = 1

\* C1 witness: a thread is returning, from a repeated call, the instance an
\* earlier call of its own returned, while another thread holds a different
\* instance for the same (port, account)
C1_Witness ==
    \E t \in Threads, g1, g2 \in got :
        /\ pc[t] = "get_unlock"
        /\ g1.thread = t /\ g1.port = arg[t].port /\ g1.account = arg[t].account
        /\ ret[t] = g1.obj
        /\ g2.thread # t /\ g2.port = g1.port /\ g2.account = g1.account
        /\ g2.obj # g1.obj

\* C2: two threads that acquired a session for the same (port, account) never
\* share a controller: the ADBController and the ImageController of one
\* thread's SimulatorInstance are different objects (hence different internal
\* locks) from those of the other thread's.
C2_ThreadsNeverShareControllers ==
    \A g1, g2 \in got :
        (g1.thread # g2.thread /\ g1.port = g2.port /\ g1.account = g2.account)
        => /\ simObjs[g1.obj].adb # simObjs[g2.obj].adb
           /\ simObjs[g1.obj].image # simObjs[g2.obj].image

\* C3: a release by the thread that acquired the entry issues one disconnect
\* for that port, exactly once, and removes the entry whether or not the
\* disconnect succeeded (no exception leaves the call); an instance found in
\* the registry afterwards is a newly constructed one, never an evicted one.
C3_ReleaseCleansUpAndEvicts ==
    /\ \A t \in Threads :
          /\ relInfo[t].discResult # "raised"
          /\ pc[t] = "rel_cleanup" =>
                regCmd[t] = DisconnectCmd(Host, relInfo[t].port)
          /\ (pc[t] = "rel_unlock" /\ relInfo[t].found) =>
                /\ relInfo[t].discResult \in {"True", "False"}
                /\ ManagerKey(relInfo[t].port, t, relInfo[t].account)
                       \notin DOMAIN instances
          /\ (relInfo[t].phase = "returned" /\ relInfo[t].found) =>
                /\ relInfo[t].disc = 1
                /\ relInfo[t].obj \in evicted
    /\ \A k \in DOMAIN instances : instances[k] \notin evicted
    /\ \A g \in Results : g.obj \notin evicted

\* C3 witness: after a release whose disconnect failed, the same thread has
\* acquired the same (port, account) again and got a newly constructed instance
C3_Witness ==
    \E t \in Threads :
        /\ relInfo[t].phase = "returned" /\ relInfo[t].found
        /\ relInfo[t].discResult = "False"
        /\ pc[t] = "get_unlock"
        /\ arg[t].port = relInfo[t].port /\ arg[t].account = relInfo[t].account
        /\ ret[t] # relInfo[t].obj
        /\ ctorCount[<<arg[t].port, t, arg[t].account>>] = 1

\* C4: no thread holds SimulatorManager._lock while a blocking device-bridge
\* command is in flight.
C4_LockNotHeldAcrossBridgeIO ==
    \A t \in Threads : regCmd[t].sub # "none" => t \notin mgrLock

-----------------------------------------------------------------------------
\* Claims about ADBController

\* the commands that act on a device without being connect or disconnect
DeviceCommands == {"tap", "swipe", "dump", "pull", "dumpsys"}

\* C5: every tap, swipe, dump, pull and resolution-query command issued
\* through the controller obtained for port P is addressed to the emulator at
\* host:P, and so acts on no other session's emulator.
C5_CommandsAddressedToOwnPort ==
    /\ \A i \in DOMAIN brLog :
          brLog[i].sub \in DeviceCommands => brLog[i].serial = AdbKey(Host, brOp.port)
    /\ brOp.name \notin {"none", "connect", "disconnect"} =>
          brRun.dev \in {0, brOp.port}

\* pat occurs in s when letter case is ignored
CiHas(s, pat) ==
    \E i \in 0..(Len(s) - Len(pat)) :
        \A j \in 1..Len(pat) : LowerChar(s[i + j]) = pat[j]

\* C6: connect returns true if and only if the connect command completed and
\* its output contains "connected" or "already", case-insensitively; so a
\* connect to an already-connected instance returns true, and a timeout, a
\* missing binary or a permission error yields false, never an exception.
C6_ConnectResult ==
    (brPc = "done" /\ brOp.name = "connect") =>
        /\ brRet \in {"True", "False"}
        /\ brRet = "True" <=>
              /\ brRun.kind = "completed"
              /\ CiHas(brRun.stdout, T_connected) \/ CiHas(brRun.stdout, T_already)
        /\ (brRun.wasConnected /\ brRun.kind = "completed") => brRet = "True"
        /\ brRun.behaviour \in {"never", "nobinary", "noperm"} => brRet = "False"

\* C6 witness: a connect to an instance that was already connected has
\* returned true
C6_Witness ==
    /\ brPc = "done" /\ brOp.name = "connect"
    /\ brRun.wasConnected /\ brRun.kind = "completed"
    /\ brRet = "True"

\* C7: when the disconnect command completes with output that does not match
\* the expected text ("disconnected ..."), disconnect reports failure.
C7_DisconnectMatchesOutput ==
    (/\ brPc = "done" /\ brOp.name = "disconnect"
     /\ brRun.kind = "completed"
     /\ ~PyIn(<<"d", "i", "s">> \o T_connected, Lower(brRun.stdout)))
    => brRet = "False"

\* C8: for every failure cause of the underlying command (non-zero exit,
\* timeout, binary not found, permission denied), click, swipe,
\* download_window_dump and close_simulator_game return false to the caller
\* and let no exception escape.
C8_FailureReturnsFalse ==
    (/\ brOp.name \in {"click", "swipe", "download_window_dump", "close_simulator_game"}
     /\ brRun.behaviour \in {"nonzero", "never", "nobinary", "noperm"})
    => (brPc = "done" /\ brRet = "False")

\* C9: every device-bridge operation applies a timeout to each underlying
\* command, so no operation waits for ever on a command that never completes.
C9_EveryCommandHasTimeout ==
    /\ \A i \in DOMAIN brLog : brLog[i].timeout > 0
    /\ brPc # "hung"

Abs(n) == IF n < 0 THEN -n ELSE n

\* C10: one click(x, y, max_offset=m) with m >= 0 issues at most one tap, at a
\* point within m of (x, y) in both coordinates; with m = 0 it issues exactly
\* one tap at exactly (x, y), e.g. click(500, 500, max_offset=0) at (500, 500).
C10_ClickJitterBounded ==
    brOp.name = "click" =>
        /\ Len(brLog) <= 1
        /\ \A i \in DOMAIN brLog :
              /\ brLog[i].sub = "tap"
              /\ Abs(brLog[i].args[1] - brOp.base[1]) <= brOp.max_offset
              /\ Abs(brLog[i].args[2] - brOp.base[2]) <= brOp.max_offset
        /\ brOp.max_offset = 0 => brLog = <<TapCmd(brOp.base[1], brOp.base[2])>>

\* C10 witness: click(500, 500, max_offset=0) has returned after one tap at
\* (500, 500)
C10_Witness ==
    /\ brPc = "done" /\ brOp.name = "click"
    /\ brOp.base = <<500, 500>> /\ brOp.max_offset = 0
    /\ brLog = <<TapCmd(500, 500)>>
    /\ brRet = "True"

\* C11: download_window_dump issues the dump command first and the pull
\* command only after the dump command has succeeded; it returns True only
\* when both commands succeeded, and False when either of them failed.
C11_DumpThenPull ==
    brOp.name = "download_window_dump" =>
        /\ brLog \in {<<DumpCmd>>, <<DumpCmd, PullCmd>>}
        /\ Len(brLog) = 2 => (Len(brEnded) >= 1 /\ brEnded[1] = "exit0")
        /\ Len(brEnded) <= Len(brLog)
        /\ brPc = "done" =>
              /\ brRet \in {"True", "False"}
              /\ brRet = "True" <=>
                    (Len(brEnded) = 2 /\ brEnded[1] = "exit0" /\ brEnded[2] = "exit0")

\* C11 witness: the dump succeeded, the pull was issued after it and failed,
\* and download_window_dump returned False
C11_Witness ==
    /\ brOp.name = "download_window_dump"
    /\ brPc = "done"
    /\ brLog = <<DumpCmd, PullCmd>>
    /\ brEnded = <<"exit0", "nonzero">>
    /\ brRet = "False"

-----------------------------------------------------------------------------
\* Claims about ImageController.get_simulator_ui_bounds

\* the call in progress parsed a well-formed snapshot
ScannedSnapshot == locPc = "done" /\ locSnap.xml = "ok"

\* the nodes of the snapshot whose queried attribute equals the query value
Matching == {i \in 1..Len(locSnap.nodes) : locSnap.nodes[i].value = locQuery}

\* the first of them in document order
FirstMatching == CHOOSE i \in Matching : \A j \in Matching : i <= j

\* the integer midpoint of rectangle r
Midpoint(r) == <<(r[1] + r[3]) \div 2, (r[2] + r[4]) \div 2>>

C14_SnapshotAlwaysRemoved ==
    locPc = "done" => ~locFile

\* C15: the call never raises; a failed pull, a missing or unparsable
\* snapshot file, and a first matching node whose bounds string is not of the
\* form [l,t][r,b] all give None.
C15_FailuresGiveNone ==
    locPc = "done" =>
        /\ locRet.kind \in {"None", "point"}
        /\ locSnap.xml \in {"none", "missing", "garbled"} => locRet = ReturnNone
        /\ (/\ locSnap.xml = "ok"
            /\ Matching # {}
            /\ locSnap.nodes[FirstMatching].bounds # <<>>
            /\ \A r \in Rects : locSnap.nodes[FirstMatching].bounds # FormatBounds(r))
               => locRet = ReturnNone

-----------------------------------------------------------------------------
\* Claims about check_resolution_ratio and MuMuSimulator.run

\* the display check has just been made on a resolution that could be read
Checked == lnChk # "none" /\ lnRes # <<>>

\* both dimensions of resolution r are below the target's, the target taken
\* as tw x th or as th x tw
SmallerInBoth(r, tw, th) ==
    \/ (r[1] < tw /\ r[2] < th)
    \/ (r[1] < th /\ r[2] < tw)

\* long side over short side of r is within 1% (0.01) of the target's
WithinOnePercent(r, tw, th) ==
    LET long == IF r[1] > r[2] THEN r[1] ELSE r[2]
        short == IF r[1] > r[2] THEN r[2] ELSE r[1]
        tlong == IF tw > th THEN tw ELSE th
        tshort == IF tw > th THEN th ELSE tw
    IN /\ 100 * (long * tshort - tlong * short) <= short * tshort
       /\ 100 * (tlong * short - long * tshort) <= short * tshort

\* C16: check_resolution_ratio(1920, 1080) returns True on (1920, 1080), does
\* not return True on (800, 600), and returns True only when the current
\* resolution is not below the target in both dimensions (in either
\* orientation) and its long-side/short-side ratio is within 1% of the target's.
C16_ResolutionCheck ==
    Checked =>
        /\ lnRes = <<1920, 1080>> => lnChk = "True"
        /\ lnRes = <<800, 600>> => lnChk # "True"
        /\ lnChk = "True" =>
              /\ ~SmallerInBoth(lnRes, 1920, 1080)
              /\ WithinOnePercent(lnRes, 1920, 1080)

\* C16 witness: the check returned True on 1920x1075, which is below the
\* target in one dimension only and within 1% of its ratio
C16_Witness ==
    /\ lnRes = <<1920, 1075>>
    /\ lnChk = "True"
    /\ lnPc = "close_ad"

\* C17: a portrait resolution against the landscape target, with sufficient
\* dimensions and a matching ratio, is only warned about: the check succeeds
\* and run goes on past the display check.
C17_OrientationOnlyWarned ==
    (/\ Checked
     /\ lnRes[1] < lnRes[2]
     /\ ~SmallerInBoth(lnRes, 1920, 1080)
     /\ WithinOnePercent(lnRes, 1920, 1080))
        => (lnChk = "True" /\ lnPc = "close_ad")

\* the names of the steps attempted so far
StepNames == [i \in 1..Len(lnTrace) |-> lnTrace[i].step]

IsPrefix(s, t) == Len(s) <= Len(t) /\ s = SubSeq(t, 1, Len(s))

\* the step before the i-th
Before(i) == lnTrace[i - 1]

\* C18: run goes strictly along is_running, (start,) connect, display check,
\* launch: start only when the emulator was not detected running, connect
\* only once it is running, the display check only after a successful
\* connect, the launch only after a successful check; no step twice; a failed
\* start or connect ends the run with False and no later step.
C18_RunOrder ==
    /\ \/ IsPrefix(StepNames, <<"is_running", "connect", "check", "launch">>)
       \/ IsPrefix(StepNames, <<"is_running", "start", "connect", "check", "launch">>)
    /\ \A i \in 2..Len(lnTrace) :
          /\ lnTrace[i].step = "start" => Before(i) = [step |-> "is_running", ok |-> FALSE]
          /\ lnTrace[i].step = "connect" =>
                Before(i) \in {[step |-> "is_running", ok |-> TRUE],
                               [step |-> "start", ok |-> TRUE]}
          /\ lnTrace[i].step = "check" => Before(i) = [step |-> "connect", ok |-> TRUE]
          /\ lnTrace[i].step = "launch" => Before(i) = [step |-> "check", ok |-> TRUE]
    /\ lnPc = "start" => lnTrace[Len(lnTrace)] = [step |-> "is_running", ok |-> FALSE]
    /\ lnPc = "connect" =>
          lnTrace[Len(lnTrace)] \in {[step |-> "is_running", ok |-> TRUE],
                                     [step |-> "start", ok |-> TRUE]}
    /\ lnPc = "check" => lnTrace[Len(lnTrace)] = [step |-> "connect", ok |-> TRUE]
    /\ lnPc \in {"close_ad", "close_game", "try_launch", "swipe"} =>
          lnTrace[Len(lnTrace)] = [step |-> "check", ok |-> TRUE]
    /\ (/\ lnTrace # <<>>
        /\ lnTrace[Len(lnTrace)] \in {[step |-> "start", ok |-> FALSE],
                                      [step |-> "connect", ok |-> FALSE]})
          => (lnPc = "done" /\ lnRet = "False")

\* C18 witness: the emulator was not running, was started, connected and
\* checked, and the launch succeeded
C18_Witness ==
    /\ lnPc = "done"
    /\ lnRet = "True"
    /\ lnTrace = <<[step |-> "is_running", ok |-> FALSE], [step |-> "start", ok |-> TRUE],
                   [step |-> "connect", ok |-> TRUE], [step |-> "check", ok |-> TRUE],
                   [step |-> "launch", ok |-> TRUE]>>

\* C19: run gives its caller True or False and never an exception, also
\* when the resolution cannot be read after a successful connect.
C19_RunNeverRaises ==
    lnPc = "done" => lnRet \in {"True", "False"}

\* C20: in launcher_simulator_game with a total of N pages read from the page
\* indicator, success on locate attempt k (1 <= k <= N+1) comes after exactly
\* k-1 swipes, and when no attempt up to the (N+1)-th locates the icon,
\* exactly N swipes are made and False is returned, with no exception.
C20_SwipesPerAttempt ==
    lnRead >= 0 =>
        /\ lnTries <= lnRead + 1
        /\ Len(lnSwipes) <= lnRead
        /\ (lnPc = "done" /\ lnTrace[Len(lnTrace)].step = "launch") =>
              /\ lnRet \in {"True", "False"}
              /\ lnRet = "True" => (lnTries >= 1 /\ Len(lnSwipes) = lnTries - 1)
              /\ lnRet = "False" => (lnTries = lnRead + 1 /\ Len(lnSwipes) = lnRead)

\* C20 witness: three pages; the icon was not located on attempts 1 and 2 and
\* was on attempt 3, after exactly two swipes
C20_Witness ==
    /\ lnPc = "done"
    /\ lnRead = 3
    /\ lnTries = 3
    /\ Len(lnSwipes) = 2
    /\ lnRet = "True"

C22_NoIndicatorNoSwipe ==
    (lnClosed = "True" /\ lnRead = -1) => (lnSwipes = <<>> /\ lnRange = {})

\* C23: whenever the direct locate has failed, the launch has read the page
\* indicator, whether or not the force-stop succeeded.
C23_IndicatorReadAfterFailedLocate ==
    (lnPc \in {"swipe", "done"} /\ lnAttempt >= 1) => lnReadFrom # NoPath

\* C24: every refresh of a launch parses a file that the downloads of the
\* session write.
C24_RefreshReadsPulledSnapshot ==
    lnReadFrom # NoPath => lnReadFrom \in lnPullPaths

-----------------------------------------------------------------------------
\* PluginManager claims

\* a finished execute_plugins_by_priority
BatchDone == pmOp.op = "execute_plugins_by_priority" /\ pmPc = "done"

\* the first place of a name in a list of names / of plugins
FirstIn(names, n) == CHOOSE i \in 1..Len(names) : names[i] = n /\ \A j \in 1..(i - 1) : names[j] # n
RegisteredAt(dict, n) == CHOOSE i \in 1..Len(dict) : dict[i].name = n

\* the names of the argument that were registered at the call
NamedRegistered == {i \in 1..Len(pmOp.names) : GetPlugin(pmBefore, pmOp.names[i]) # NoPlugin}

\* the executions are those of the named registered plugins, in ascending
\* priority
RanByPriority ==
    /\ Len(pmRan) = Cardinality(NamedRegistered)
    /\ {pmRan[i].plugin : i \in 1..Len(pmRan)}
          = {GetPlugin(pmBefore, pmOp.names[i]) : i \in NamedRegistered}
    /\ \A i, j \in 1..Len(pmRan) : i < j => pmRan[i].plugin.priority <= pmRan[j].plugin.priority

\* C25 as stated: the batch runs the named registered plugins in ascending
\* priority, plugins of equal priority in their registration order whatever
\* the order of the names argument.
C25_PriorityOrder_Stated ==
    BatchDone =>
        /\ RanByPriority
        /\ \A i, j \in 1..Len(pmRan) :
              (i < j /\ pmRan[i].plugin.priority = pmRan[j].plugin.priority)
                  => RegisteredAt(pmBefore, pmRan[i].plugin.name)
                        <= RegisteredAt(pmBefore, pmRan[j].plugin.name)

\* C25 (amended): the batch runs the named registered plugins one after the
\* other in ascending priority, whatever the order of the names argument;
\* plugins of equal priority run in the order of their names in the argument.
C25_PriorityOrder ==
    BatchDone =>
        /\ RanByPriority
        /\ \A i, j \in 1..Len(pmRan) :
              (i < j /\ pmRan[i].plugin.priority = pmRan[j].plugin.priority)
                  => FirstIn(pmOp.names, pmRan[i].plugin.name)
                        <= FirstIn(pmOp.names, pmRan[j].plugin.name)

\* priorities 50, 10, 10 registered in this order and named as c, a, b ran
\* as c, b, a
C25_Witness ==
    /\ BatchDone
    /\ pmBefore = <<[name |-> "a", priority |-> 50], [name |-> "b", priority |-> 10],
                    [name |-> "c", priority |-> 10]>>
    /\ pmOp.names = <<"c", "a", "b">>
    /\ [i \in 1..Len(pmRan) |-> pmRan[i].plugin.name] = <<"c", "b", "a">>

\* the spec's example: priorities 50, 10, 30 ran as 10, 30, 50
C25_Example ==
    /\ BatchDone
    /\ pmOp.names = <<"a", "b", "c">>
    /\ [i \in 1..Len(pmRan) |-> pmRan[i].plugin.priority] = <<10, 30, 50>>

\* the last execution of the plugin called name in this operation
LastRan(name) ==
    pmRan[CHOOSE i \in 1..Len(pmRan) :
             /\ pmRan[i].plugin.name = name
             /\ \A j \in (i + 1)..Len(pmRan) : pmRan[j].plugin.name # name]

\* C26: in a batch, a fault or a refusal of one plugin does not halt the
\* batch: the batch returns its result map, every named registered plugin
\* had its execution, the map has an entry for each of them, the entry of a
\* failed plugin is an error entry and the others carry their own results.
C26_FaultDoesNotHaltBatch ==
    BatchDone =>
        /\ ~pmRet.raised
        /\ Len(pmRan) = Cardinality(NamedRegistered)
        /\ DOMAIN pmResults = {pmOp.names[i] : i \in NamedRegistered}
        /\ \A n \in DOMAIN pmResults :
              /\ pmResults[n].of = n
              /\ pmResults[n].kind = (IF LastRan(n).r.raised THEN "error" ELSE "result")
              /\ pmResults[n].what = LastRan(n).r.what

\* the priority-10 plugin faulted, the priority-30 one was refused, the
\* priority-50 one ran, and the map has the three entries
C26_Witness ==
    /\ BatchDone
    /\ [i \in 1..Len(pmRan) |-> pmRan[i].plugin.priority] = <<10, 30, 50>>
    /\ [i \in 1..Len(pmRan) |-> pmRan[i].r.what] = <<"fault", "not_executable", "result">>
    /\ pmResults["b"].kind = "error" /\ pmResults["c"].kind = "error"
    /\ pmResults["a"].kind = "result"

\* what execute_plugin did: the registry as it was, and execute() called
\* only for a registered plugin that did not refuse
ExecutePluginDone == pmOp.op = "execute_plugin" /\ pmPc = "done"

\* C27: execute_plugin(name) raises the not-found error for an unregistered
\* name and the not-executable error for a plugin that refuses, in both
\* cases without calling execute(); whatever the outcome (result, refusal,
\* fault inside execute()), the registered plugins are the same as before.
C27_ExecutePluginErrors ==
    /\ ExecutePluginDone =>
          /\ GetPlugin(pmBefore, pmOp.name) = NoPlugin
                => (pmRet = [raised |-> TRUE, what |-> "not_found"] /\ ~pmRan[1].r.invoked)
          /\ (GetPlugin(pmBefore, pmOp.name) # NoPlugin /\ ~pmRan[1].can)
                => (pmRet = [raised |-> TRUE, what |-> "not_executable"]
                       /\ ~pmRan[1].r.invoked)
          /\ pmRan[1].r.invoked => pmRet.what \in {"result", "fault"}
          /\ pmRet.raised = (pmRet.what # "result")
    /\ pmOp.op \in {"execute_plugin", "execute_plugins_by_priority"}
          => plugins = pmBefore

\* a refusal by a registered plugin, with two plugins registered
C27_Witness ==
    /\ ExecutePluginDone
    /\ Len(plugins) = 2
    /\ pmRet = [raised |-> TRUE, what |-> "not_executable"]
    /\ ~pmRan[1].r.invoked

\* the instances that were registered at the call and are not any more
\* (an instance replaced by another of the same class is in pmLeft)
GoneSinceCall ==
    {pmBefore[i] : i \in 1..Len(pmBefore)} \ {plugins[i] : i \in 1..Len(plugins)}

\* C28: an instance leaves the registry only after its teardown() was
\* called, whichever way it leaves: unload_plugin, unload_all_plugins, or
\* being overwritten by a registration under the same name.
C28_TeardownBeforeLeaving ==
    /\ \A l \in pmLeft : l.teardown
    /\ GoneSinceCall \subseteq {l.plugin : l \in pmLeft}

\* unload_plugin took an instance out after its teardown()
C28_UnloadWitness ==
    /\ pmOp.op = "unload_plugin" /\ pmPc = "done"
    /\ pmRet.what = "True"
    /\ \E l \in pmLeft : l.teardown /\ l.plugin.name = pmOp.name

\* unload_all_plugins with a plugin registered: it holds self._lock and
\* waits for it
UnloadAllBlocked == pmPc = "unload_all" /\ pmQueue # <<>> /\ pmLock # {}

-----------------------------------------------------------------------------
\* PluginBase claims

HandlingDone == ehPc = "done"

\* the last call of execute() did not fault
LastSucceeded == ehFaults < ehInvocations

Retries == Cardinality({i \in 1..Len(ehAnswers) : ehAnswers[i] = "retry"})

\* C29: in execute_with_error_handling the handler is asked exactly once
\* for every faulting call of execute(); "resolved" gives a success result,
\* "skip" a skipped result, "stop" raises to the caller, any unrecognized
\* answer gives an error result, and "retry" calls execute() again; so an
\* execute() that always faults with a handler answering retry, retry,
\* resolved gives a success result after three calls of execute().
C29_ErrorResolutions ==
    (HandlingDone /\ ehRet.status # "handler_fault") =>
        /\ Len(ehAnswers) = ehFaults
        /\ \A i \in 1..(Len(ehAnswers) - 1) : ehAnswers[i] = "retry"
        /\ ehInvocations = Retries + (IF ehRet.status = "RecursionError" THEN 0 ELSE 1)
        /\ IF LastSucceeded THEN ehRet = [does |-> "return", status |-> "result"]
           ELSE LET last == ehAnswers[Len(ehAnswers)] IN
                CASE last = "resolved" -> ehRet = [does |-> "return", status |-> "success"]
                  [] last = "skip"     -> ehRet = [does |-> "return", status |-> "skipped"]
                  [] last = "stop"     -> ehRet = [does |-> "raise", status |-> "stop"]
                  [] last = "retry"    -> ehRet = [does |-> "raise", status |-> "RecursionError"]
                  [] OTHER             -> ehRet = [does |-> "return", status |-> "error"]

\* always faulting, answers retry, retry, resolved: success after three
\* calls of execute()
C29_Witness ==
    /\ HandlingDone
    /\ ehHandler = <<"retry", "retry", "resolved">>
    /\ ehFaults = 3 /\ ehInvocations = 3
    /\ ehAnswers = <<"retry", "retry", "resolved">>
    /\ ehRet = [does |-> "return", status |-> "success"]

\* a skipped result
C29_SkipWitness ==
    /\ HandlingDone
    /\ ehAnswers = <<"retry", "skip">>
    /\ ehRet = [does |-> "return", status |-> "skipped"]

\* every call of execute() that ended faulted, and the handler answered
\* "retry" each time
OnlyRetries ==
    /\ ehFaults = ehInvocations - (IF ehPc = "executing" THEN 1 ELSE 0)
    /\ Len(ehAnswers) = ehFaults
    /\ \A i \in 1..Len(ehAnswers) : ehAnswers[i] = "retry"

\* C30 as stated: the call ends only if some call of execute() succeeds or
\* the handler gives an answer other than "retry"; with an execute() that
\* always faults and a handler that always answers "retry" it never ends.
C30_RetryUnbounded_Stated == HandlingDone => ~OnlyRetries

\* what holds of a call in every state
RetryEndsAtRecursionLimit ==
    /\ (HandlingDone /\ ehRet.does = "return") => ~OnlyRetries
    /\ (HandlingDone /\ OnlyRetries)
          => (ehRet = [does |-> "raise", status |-> "RecursionError"]
                 /\ ehInvocations = RecursionLimit)
    /\ (ehPc = "running" /\ OnlyRetries) => ehInvocations = ehDepth - 1

\* C30 (amended): the retry answer has no bound of its own: with an
\* execute() that always faults and a handler that always answers "retry",
\* the call returns no result; execute() is called again, one frame deeper
\* each time, until the interpreter's recursion limit is reached, and the
\* call then ends by raising RecursionError.  A result is returned only if
\* some call of execute() succeeds or the handler gives an answer other
\* than "retry".
C30_RetryUnbounded == []RetryEndsAtRecursionLimit /\ ((ehPc = "running") ~> HandlingDone)

\* a handler that always answers "retry": the call ended with RecursionError
C30_Witness ==
    /\ HandlingDone
    /\ ehHandler = <<"retry">>
    /\ OnlyRetries
    /\ ehInvocations = RecursionLimit
    /\ ehRet = [does |-> "raise", status |-> "RecursionError"]

\* the thread is inside wait_if_paused / one of its reads was made
Waiting == ehWait # "none"
ReadMade == ehWait \in {"test_paused", "test_running"} /\ ehWait' # ehWait

\* what a read of the loop condition leads to
WaitReads ==
    ReadMade =>
        /\ (ehWait = "test_paused" /\ ~ehPaused) => ehWait' = "none"
        /\ (ehWait = "test_running" /\ ~ehRunning) => ehWait' = "none"
        /\ (ehPaused /\ ehRunning) => ehWait' # "none"
        /\ ehWait' = "sleeping" => ehRunning

\* C31: wait_if_paused spins exactly while the plugin is paused and
\* running: a read that finds the plugin not paused, or not running, leaves
\* the loop without sleeping; a read made while it is paused and running does
\* not leave; and once the plugin is resumed (and not paused again) or
\* stopped, a fairly scheduled thread leaves the loop.
C31_WaitIfPaused ==
    /\ [][WaitReads]_vars
    /\ (Waiting /\ ~ehPaused) ~> (~Waiting \/ ehPaused)
    /\ (Waiting /\ ~ehRunning) ~> ~Waiting

\* stop() came while the thread was spinning on a paused plugin
C31_Witness ==
    /\ ehWait = "sleeping"
    /\ ehPaused
    /\ ~ehRunning
    /\ ehStoppedAt # -1

\* C32: unload_all_plugins always terminates and unloads everything: with
\* any number of plugins registered it returns, every plugin had its
\* teardown() and the registry is empty afterwards.
C32_UnloadAllTerminates ==
    (pmPc = "unload_all")
        ~> (pmPc = "done" /\ pmOp.op = "unload_all_plugins" /\ plugins = <<>>
               /\ {l.plugin : l \in pmLeft} = {pmBefore[i] : i \in 1..Len(pmBefore)}
               /\ \A l \in pmLeft : l.teardown)

\* C36: with a single thread and no stop(), _is_running is true throughout
\* every call of execute() made by execute_with_error_handling and false
\* once the call has returned or raised, on every path: a result, each
\* answer of the handler, nested retries, and a fault of the handler itself.
C36_RunningFlag ==
    /\ ehPc = "executing" => ehRunning
    /\ ehPc \in {"idle", "done"} => ~ehRunning

\* after two retries the handler itself faulted: the call raised and the
\* flag is down
C36_Witness ==
    /\ ehPc = "done"
    /\ ehRet = [does |-> "raise", status |-> "handler_fault"]
    /\ ehAnswers = <<"retry", "retry">>
    /\ ehInvocations = 3
    /\ ~ehRunning

\* C37: a stop() during execute_with_error_handling holds for the rest of
\* the call: _is_running stays false and execute() is not called again, not
\* even after a fault answered with "retry".
C37_StopHonoured ==
    ehStoppedAt # -1 => (~ehRunning /\ ehInvocations = ehStoppedAt)

-----------------------------------------------------------------------------
\* Registry and controller claims, continued

\* thread u holds an entry for (port, account)
Holds(u, port, account) == ManagerKey(port, u, account) \in DOMAIN instances

\* a step in which the entry of thread u for (port, account) goes away
Evicts(u, port, account) ==
    Holds(u, port, account) /\ ManagerKey(port, u, account) \notin DOMAIN instances'

OnlyGrows(cache, cacheNext) ==
    \A k \in DOMAIN cache : k \in DOMAIN cacheNext /\ cacheNext[k] = cache[k]

\* every SimulatorInstance wraps the cached controllers of its port and of
\* its (port, account)
WrapsCached ==
    \A i \in DOMAIN simObjs :
        /\ AdbKey(Host, simObjs[i].port) \in DOMAIN adbInstances
        /\ simObjs[i].adb = adbInstances[AdbKey(Host, simObjs[i].port)]
        /\ ImageKey(simObjs[i].port, simObjs[i].account) \in DOMAIN imgInstances
        /\ simObjs[i].image = imgInstances[ImageKey(simObjs[i].port, simObjs[i].account)]

\* C34: the class-level caches of ADBController (keyed by host:port) and of
\* ImageController (keyed by port:account) only grow: no release evicts
\* from them, so an instance acquired after a release wraps the same
\* ADBController as the released one, and two sessions on one port with
\* different accounts share one ADBController.
C34_CachesOnlyGrow ==
    /\ [][OnlyGrows(adbInstances, adbInstances') /\ OnlyGrows(imgInstances, imgInstances')]_vars
    /\ []WrapsCached

\* an instance acquired after a release wraps the ADBController that was
\* constructed for the released instance
C34_Witness ==
    \E i \in DOMAIN simObjs, e \in evicted :
        /\ e < i
        /\ simObjs[i].adb = e + 1
        /\ adbInstances[AdbKey(Host, simObjs[i].port)] = e + 1

\* two live instances of one port and different accounts wrap one
\* ADBController and different ImageControllers
C34_SharedWitness ==
    \E i, j \in DOMAIN simObjs :
        /\ simObjs[i].port = simObjs[j].port
        /\ simObjs[i].account # simObjs[j].account
        /\ simObjs[i].adb = simObjs[j].adb
        /\ simObjs[i].image # simObjs[j].image

\* the threads with a connect / a disconnect command in flight on the
\* controller
Connecting == {t \in Callers : cnPc[t] = "connect_run"}
Disconnecting == {t \in Callers : cnPc[t] = "disconnect_run"}

\* at most one connect command is in flight, and its thread holds the lock
ConnectsExclusive == Cardinality(Connecting) <= 1 /\ Connecting \subseteq cnLock

\* C35: on one ADBController, under any interleaving of threads, at most
\* one connect command is in flight at any time, and no connect command is
\* in flight at the same time as a disconnect command.
C35_ConnectExcludesDisconnect ==
    /\ Cardinality(Connecting) <= 1
    /\ ~(Connecting # {} /\ Disconnecting # {})

-----------------------------------------------------------------------------
\* Launcher claims, continued

\* launcher_simulator_game has returned
LaunchDone == lnPc = "done" /\ lnTries > 0

\* C38: launcher_simulator_game returns true only if the icon was located
\* and the tap on it was issued successfully: when the locate succeeds and
\* the tap command fails, the launch does not report success.
C38_LaunchNeedsTap ==
    (LaunchDone /\ lnRet = "True") => lnTap = "True"

\* C39: on a device where a left swipe shows the page before and a right
\* swipe the page after, the search started on page c of N comes to every
\* page within its N swipes, so an icon on any page is located and the
\* launch returns true, for every start page c.
C39_SearchFindsIcon ==
    (LaunchDone /\ devPages > 0 /\ lnClosed = "True") => lnRet = "True"

-----------------------------------------------------------------------------
\* Log registry claims

\* the logger of an account is registered with its console and its file
\* handler attached
LoggerKept(account) ==
    /\ LoggerKey(account) \in loggers
    /\ \A kind \in {"console", "file"} :
         \E i \in DOMAIN handlers[LoggerKey(account)] :
            handlers[LoggerKey(account)][i].kind = kind

\* C40: while at least one LogWrapper made for an account is live, the
\* logger of that account stays registered in the LogFactory with its
\* console and file handlers attached: destroying one LogWrapper never
\* closes or removes the handlers another live LogWrapper of the account
\* uses.
C40_LiveWrapperKeepsLogger ==
    \A w \in Wrappers : wrappers[w] # NoWrapper => LoggerKept(wrappers[w])

PmTypeOK ==
    /\ pmPc \in {"idle", "batch", "unload_all", "done"}
    /\ \A i, j \in 1..Len(plugins) : i # j => plugins[i].name # plugins[j].name
====
